---- MODULE Spec2Model ----
(***************************************************************************)
(* Majestic contracting hub: lead classification, scoring, tagging,        *)
(* geofence validation, duplicate detection and the flows that store      *)
(* leads.  Text values are sequences of one-character strings so that     *)
(* lower-casing, trimming, digit stripping and pattern matching are       *)
(* computed the way the TypeScript code computes them.                    *)
(***************************************************************************)
EXTENDS Integers, Sequences, FiniteSets, TLC

\* null / undefined for text values: a one-element sequence that is no character
NULL == <<"NULL">>
\* null / undefined for numeric values
NONE == -1

(***************************************************************************)
(* String primitives (JavaScript String methods and SQL ILIKE)             *)
(***************************************************************************)
UpperChars == <<"A","B","C","D","E","F","G","H","I","J","K","L","M","N","O","P","Q","R","S","T","U","V","W","X","Y","Z">>
LowerChars == <<"a","b","c","d","e","f","g","h","i","j","k","l","m","n","o","p","q","r","s","t","u","v","w","x","y","z">>
DigitChars == {"0","1","2","3","4","5","6","7","8","9"}

LowerChar(c) ==
  IF \E i \in 1..26 : UpperChars[i] = c
  THEN LowerChars[CHOOSE i \in 1..26 : UpperChars[i] = c]
  ELSE c

UpperChar(c) ==
  IF \E i \in 1..26 : LowerChars[i] = c
  THEN UpperChars[CHOOSE i \in 1..26 : LowerChars[i] = c]
  ELSE c

\* String.prototype.toLowerCase
toLowerCase(str) == [i \in 1..Len(str) |-> LowerChar(str[i])]

\* String.prototype.toUpperCase
toUpperCase(str) == [i \in 1..Len(str) |-> UpperChar(str[i])]

RECURSIVE TrimLeft(_)
TrimLeft(str) ==
  IF str # <<>> /\ Head(str) = " " THEN TrimLeft(Tail(str)) ELSE str

RECURSIVE TrimRight(_)
TrimRight(str) ==
  IF str # <<>> /\ str[Len(str)] = " " THEN TrimRight(SubSeq(str, 1, Len(str) - 1)) ELSE str

\* String.prototype.trim
trim(str) == TrimRight(TrimLeft(str))

\* str.replace(/\D/g, '')
RECURSIVE StripNonDigits(_)
StripNonDigits(str) ==
  IF str = <<>> THEN <<>>
  ELSE IF Head(str) \in DigitChars THEN <<Head(str)>> \o StripNonDigits(Tail(str))
  ELSE StripNonDigits(Tail(str))

\* str.replace(/\s+/g, ' ')
RECURSIVE CollapseSpaces(_)
CollapseSpaces(str) ==
  IF str = <<>> THEN <<>>
  ELSE IF Head(str) = " " /\ Len(str) > 1 /\ str[2] = " " THEN CollapseSpaces(Tail(str))
  ELSE <<Head(str)>> \o CollapseSpaces(Tail(str))

\* str.substring(0, n)
substring0(str, n) == SubSeq(str, 1, IF Len(str) < n THEN Len(str) ELSE n)

\* String.prototype.includes
includes(str, sub) ==
  \E i \in 0..(Len(str) - Len(sub)) : SubSeq(str, i + 1, i + Len(sub)) = sub

\* SQL LIKE on already lower-cased operands: % (and PostgREST's *) match
\* any run of characters, _ matches exactly one character.
RECURSIVE LikeMatch(_, _)
LikeMatch(text, pat) ==
  IF pat = <<>> THEN text = <<>>
  ELSE IF Head(pat) \in {"%", "*"}
       THEN \E k \in 0..Len(text) : LikeMatch(SubSeq(text, k + 1, Len(text)), Tail(pat))
  ELSE IF text = <<>> THEN FALSE
  ELSE IF Head(pat) = "_" THEN LikeMatch(Tail(text), Tail(pat))
  ELSE Head(pat) = Head(text) /\ LikeMatch(Tail(text), Tail(pat))

\* PostgREST .ilike(column, pattern): case-insensitive LIKE; NULL never matches
ilike(value, pat) ==
  value # NULL /\ LikeMatch(toLowerCase(value), toLowerCase(pat))

\* JavaScript truthiness of a string | null value
Truthy(v) == v # NULL /\ v # <<>>

(***************************************************************************)
(* Text constants of the reference tables                                 *)
(***************************************************************************)
Cty == [
  Fairfax |-> <<"F","a","i","r","f","a","x">>,
  FairfaxCity |-> <<"F","a","i","r","f","a","x"," ","C","i","t","y">>,
  Arlington |-> <<"A","r","l","i","n","g","t","o","n">>,
  Alexandria |-> <<"A","l","e","x","a","n","d","r","i","a">>,
  Loudoun |-> <<"L","o","u","d","o","u","n">>,
  PrinceWilliam |-> <<"P","r","i","n","c","e"," ","W","i","l","l","i","a","m">>,
  Manassas |-> <<"M","a","n","a","s","s","a","s">>,
  ManassasPark |-> <<"M","a","n","a","s","s","a","s"," ","P","a","r","k">>,
  FallsChurch |-> <<"F","a","l","l","s"," ","C","h","u","r","c","h">>,
  Fauquier |-> <<"F","a","u","q","u","i","e","r">>,
  Stafford |-> <<"S","t","a","f","f","o","r","d">>,
  Spotsylvania |-> <<"S","p","o","t","s","y","l","v","a","n","i","a">>,
  Fredericksburg |-> <<"F","r","e","d","e","r","i","c","k","s","b","u","r","g">>,
  Richmond |-> <<"R","i","c","h","m","o","n","d">>,
  Henrico |-> <<"H","e","n","r","i","c","o">>,
  Chesterfield |-> <<"C","h","e","s","t","e","r","f","i","e","l","d">>,
  Hanover |-> <<"H","a","n","o","v","e","r">>,
  Goochland |-> <<"G","o","o","c","h","l","a","n","d">>,
  Powhatan |-> <<"P","o","w","h","a","t","a","n">>,
  ColonialHeights |-> <<"C","o","l","o","n","i","a","l"," ","H","e","i","g","h","t","s">>,
  Petersburg |-> <<"P","e","t","e","r","s","b","u","r","g">>,
  VirginiaBeach |-> <<"V","i","r","g","i","n","i","a"," ","B","e","a","c","h">>,
  Norfolk |-> <<"N","o","r","f","o","l","k">>,
  NewportNews |-> <<"N","e","w","p","o","r","t"," ","N","e","w","s">>,
  Hampton |-> <<"H","a","m","p","t","o","n">>,
  Chesapeake |-> <<"C","h","e","s","a","p","e","a","k","e">>,
  Portsmouth |-> <<"P","o","r","t","s","m","o","u","t","h">>,
  Suffolk |-> <<"S","u","f","f","o","l","k">>,
  Williamsburg |-> <<"W","i","l","l","i","a","m","s","b","u","r","g">>,
  JamesCity |-> <<"J","a","m","e","s"," ","C","i","t","y">>,
  York |-> <<"Y","o","r","k">>,
  Albemarle |-> <<"A","l","b","e","m","a","r","l","e">>,
  Charlottesville |-> <<"C","h","a","r","l","o","t","t","e","s","v","i","l","l","e">>,
  Lynchburg |-> <<"L","y","n","c","h","b","u","r","g">>,
  Bedford |-> <<"B","e","d","f","o","r","d">>,
  Roanoke |-> <<"R","o","a","n","o","k","e">>,
  Salem |-> <<"S","a","l","e","m">>,
  Montgomery |-> <<"M","o","n","t","g","o","m","e","r","y">>,
  Blacksburg |-> <<"B","l","a","c","k","s","b","u","r","g">> ]
Svc == [
  NewConstruction |-> <<"N","e","w"," ","C","o","n","s","t","r","u","c","t","i","o","n">>,
  FullRenovation |-> <<"F","u","l","l"," ","R","e","n","o","v","a","t","i","o","n">>,
  HomeAddition |-> <<"H","o","m","e"," ","A","d","d","i","t","i","o","n">>,
  KitchenRemodel |-> <<"K","i","t","c","h","e","n"," ","R","e","m","o","d","e","l">>,
  BathroomRemodel |-> <<"B","a","t","h","r","o","o","m"," ","R","e","m","o","d","e","l">>,
  BasementRemodel |-> <<"B","a","s","e","m","e","n","t"," ","R","e","m","o","d","e","l">>,
  CondoRenovation |-> <<"C","o","n","d","o"," ","R","e","n","o","v","a","t","i","o","n">>,
  Roofing |-> <<"R","o","o","f","i","n","g">>,
  Deck |-> <<"D","e","c","k">>,
  Concrete |-> <<"C","o","n","c","r","e","t","e">>,
  Siding |-> <<"S","i","d","i","n","g">>,
  Fence |-> <<"F","e","n","c","e">>,
  SheShed |-> <<"S","h","e","-","S","h","e","d">>,
  Painting |-> <<"P","a","i","n","t","i","n","g">>,
  Drywall |-> <<"D","r","y","w","a","l","l">>,
  Flooring |-> <<"F","l","o","o","r","i","n","g">>,
  WindowsDoors |-> <<"W","i","n","d","o","w","s","/","D","o","o","r","s">> ]

\* VA_ZIP_PREFIXES (validation.ts)
VA_ZIP_PREFIXES == {<<"2","0">>, <<"2","2">>, <<"2","3">>}

\* VA_COUNTIES: region name -> ordered county list (iteration order of the object)
VA_REGIONS == <<"northernVA", "richmondMetro", "hamptonRoads", "centralVA">>
VA_COUNTIES ==
  "northernVA" :> <<<<"F","a","i","r","f","a","x">>, <<"F","a","i","r","f","a","x"," ","C","i","t","y">>, <<"A","r","l","i","n","g","t","o","n">>, <<"A","l","e","x","a","n","d","r","i","a">>, <<"L","o","u","d","o","u","n">>, <<"P","r","i","n","c","e"," ","W","i","l","l","i","a","m">>, <<"M","a","n","a","s","s","a","s">>, <<"M","a","n","a","s","s","a","s"," ","P","a","r","k">>, <<"F","a","l","l","s"," ","C","h","u","r","c","h">>, <<"F","a","u","q","u","i","e","r">>, <<"S","t","a","f","f","o","r","d">>, <<"S","p","o","t","s","y","l","v","a","n","i","a">>, <<"F","r","e","d","e","r","i","c","k","s","b","u","r","g">>>>
    @@ "richmondMetro" :> <<<<"R","i","c","h","m","o","n","d">>, <<"H","e","n","r","i","c","o">>, <<"C","h","e","s","t","e","r","f","i","e","l","d">>, <<"H","a","n","o","v","e","r">>, <<"G","o","o","c","h","l","a","n","d">>, <<"P","o","w","h","a","t","a","n">>, <<"C","o","l","o","n","i","a","l"," ","H","e","i","g","h","t","s">>, <<"P","e","t","e","r","s","b","u","r","g">>>>
    @@ "hamptonRoads" :> <<<<"V","i","r","g","i","n","i","a"," ","B","e","a","c","h">>, <<"N","o","r","f","o","l","k">>, <<"N","e","w","p","o","r","t"," ","N","e","w","s">>, <<"H","a","m","p","t","o","n">>, <<"C","h","e","s","a","p","e","a","k","e">>, <<"P","o","r","t","s","m","o","u","t","h">>, <<"S","u","f","f","o","l","k">>, <<"W","i","l","l","i","a","m","s","b","u","r","g">>, <<"J","a","m","e","s"," ","C","i","t","y">>, <<"Y","o","r","k">>>>
    @@ "centralVA" :> <<<<"A","l","b","e","m","a","r","l","e">>, <<"C","h","a","r","l","o","t","t","e","s","v","i","l","l","e">>, <<"L","y","n","c","h","b","u","r","g">>, <<"B","e","d","f","o","r","d">>, <<"R","o","a","n","o","k","e">>, <<"S","a","l","e","m">>, <<"M","o","n","t","g","o","m","e","r","y">>, <<"B","l","a","c","k","s","b","u","r","g">>>>

\* ZIP_TO_COUNTY: the sample ZIP -> county table
ZIP_TO_COUNTY_PAIRS ==
  {
    <<<<"2","2","0","3","0">>, <<"F","a","i","r","f","a","x">>>>,
    <<<<"2","2","0","3","1">>, <<"F","a","i","r","f","a","x">>>>,
    <<<<"2","2","0","3","2">>, <<"F","a","i","r","f","a","x">>>>,
    <<<<"2","2","0","3","3">>, <<"F","a","i","r","f","a","x">>>>,
    <<<<"2","2","0","3","4">>, <<"F","a","i","r","f","a","x">>>>,
    <<<<"2","2","0","3","5">>, <<"F","a","i","r","f","a","x">>>>,
    <<<<"2","2","0","3","9">>, <<"F","a","i","r","f","a","x">>>>,
    <<<<"2","2","0","4","1">>, <<"F","a","i","r","f","a","x">>>>,
    <<<<"2","2","0","4","2">>, <<"F","a","i","r","f","a","x">>>>,
    <<<<"2","2","0","4","3">>, <<"F","a","i","r","f","a","x">>>>,
    <<<<"2","2","0","4","4">>, <<"F","a","i","r","f","a","x">>>>,
    <<<<"2","2","0","4","6">>, <<"F","a","l","l","s"," ","C","h","u","r","c","h">>>>,
    <<<<"2","2","0","6","0">>, <<"F","a","i","r","f","a","x">>>>,
    <<<<"2","2","0","7","9">>, <<"F","a","i","r","f","a","x">>>>,
    <<<<"2","2","1","0","1">>, <<"F","a","i","r","f","a","x">>>>,
    <<<<"2","2","1","0","2">>, <<"F","a","i","r","f","a","x">>>>,
    <<<<"2","2","1","2","4">>, <<"F","a","i","r","f","a","x">>>>,
    <<<<"2","2","1","5","0">>, <<"F","a","i","r","f","a","x">>>>,
    <<<<"2","2","1","5","1">>, <<"F","a","i","r","f","a","x">>>>,
    <<<<"2","2","1","5","2">>, <<"F","a","i","r","f","a","x">>>>,
    <<<<"2","2","1","5","3">>, <<"F","a","i","r","f","a","x">>>>,
    <<<<"2","2","1","8","0">>, <<"F","a","i","r","f","a","x">>>>,
    <<<<"2","2","1","8","1">>, <<"F","a","i","r","f","a","x">>>>,
    <<<<"2","2","1","8","2">>, <<"F","a","i","r","f","a","x">>>>,
    <<<<"2","2","2","0","1">>, <<"A","r","l","i","n","g","t","o","n">>>>,
    <<<<"2","2","2","0","2">>, <<"A","r","l","i","n","g","t","o","n">>>>,
    <<<<"2","2","2","0","3">>, <<"A","r","l","i","n","g","t","o","n">>>>,
    <<<<"2","2","2","0","4">>, <<"A","r","l","i","n","g","t","o","n">>>>,
    <<<<"2","2","2","0","5">>, <<"A","r","l","i","n","g","t","o","n">>>>,
    <<<<"2","2","2","0","6">>, <<"A","r","l","i","n","g","t","o","n">>>>,
    <<<<"2","2","2","0","7">>, <<"A","r","l","i","n","g","t","o","n">>>>,
    <<<<"2","2","2","0","9">>, <<"A","r","l","i","n","g","t","o","n">>>>,
    <<<<"2","2","2","1","1">>, <<"A","r","l","i","n","g","t","o","n">>>>,
    <<<<"2","2","2","1","3">>, <<"A","r","l","i","n","g","t","o","n">>>>,
    <<<<"2","2","3","0","1">>, <<"A","l","e","x","a","n","d","r","i","a">>>>,
    <<<<"2","2","3","0","2">>, <<"A","l","e","x","a","n","d","r","i","a">>>>,
    <<<<"2","2","3","0","3">>, <<"A","l","e","x","a","n","d","r","i","a">>>>,
    <<<<"2","2","3","0","4">>, <<"A","l","e","x","a","n","d","r","i","a">>>>,
    <<<<"2","2","3","0","5">>, <<"A","l","e","x","a","n","d","r","i","a">>>>,
    <<<<"2","2","3","0","6">>, <<"F","a","i","r","f","a","x">>>>,
    <<<<"2","2","3","0","7">>, <<"F","a","i","r","f","a","x">>>>,
    <<<<"2","2","3","0","8">>, <<"F","a","i","r","f","a","x">>>>,
    <<<<"2","2","3","0","9">>, <<"F","a","i","r","f","a","x">>>>,
    <<<<"2","2","3","1","0">>, <<"F","a","i","r","f","a","x">>>>,
    <<<<"2","2","3","1","1">>, <<"A","l","e","x","a","n","d","r","i","a">>>>,
    <<<<"2","2","3","1","2">>, <<"F","a","i","r","f","a","x">>>>,
    <<<<"2","2","3","1","4">>, <<"A","l","e","x","a","n","d","r","i","a">>>>,
    <<<<"2","2","3","1","5">>, <<"F","a","i","r","f","a","x">>>>,
    <<<<"2","0","1","0","5">>, <<"L","o","u","d","o","u","n">>>>,
    <<<<"2","0","1","1","7">>, <<"L","o","u","d","o","u","n">>>>,
    <<<<"2","0","1","2","0">>, <<"L","o","u","d","o","u","n">>>>,
    <<<<"2","0","1","2","1">>, <<"L","o","u","d","o","u","n">>>>,
    <<<<"2","0","1","2","9">>, <<"L","o","u","d","o","u","n">>>>,
    <<<<"2","0","1","3","0">>, <<"L","o","u","d","o","u","n">>>>,
    <<<<"2","0","1","3","2">>, <<"L","o","u","d","o","u","n">>>>,
    <<<<"2","0","1","3","5">>, <<"L","o","u","d","o","u","n">>>>,
    <<<<"2","0","1","4","1">>, <<"L","o","u","d","o","u","n">>>>,
    <<<<"2","0","1","4","7">>, <<"L","o","u","d","o","u","n">>>>,
    <<<<"2","0","1","4","8">>, <<"L","o","u","d","o","u","n">>>>,
    <<<<"2","0","1","5","2">>, <<"L","o","u","d","o","u","n">>>>,
    <<<<"2","0","1","5","8">>, <<"L","o","u","d","o","u","n">>>>,
    <<<<"2","0","1","6","4">>, <<"L","o","u","d","o","u","n">>>>,
    <<<<"2","0","1","6","5">>, <<"L","o","u","d","o","u","n">>>>,
    <<<<"2","0","1","6","6">>, <<"L","o","u","d","o","u","n">>>>,
    <<<<"2","0","1","7","5">>, <<"L","o","u","d","o","u","n">>>>,
    <<<<"2","0","1","7","6">>, <<"L","o","u","d","o","u","n">>>>,
    <<<<"2","2","0","2","5">>, <<"P","r","i","n","c","e"," ","W","i","l","l","i","a","m">>>>,
    <<<<"2","2","0","2","6">>, <<"P","r","i","n","c","e"," ","W","i","l","l","i","a","m">>>>,
    <<<<"2","2","1","1","0">>, <<"P","r","i","n","c","e"," ","W","i","l","l","i","a","m">>>>,
    <<<<"2","2","1","1","1">>, <<"P","r","i","n","c","e"," ","W","i","l","l","i","a","m">>>>,
    <<<<"2","2","1","1","2">>, <<"P","r","i","n","c","e"," ","W","i","l","l","i","a","m">>>>,
    <<<<"2","2","1","7","2">>, <<"P","r","i","n","c","e"," ","W","i","l","l","i","a","m">>>>,
    <<<<"2","2","1","9","1">>, <<"P","r","i","n","c","e"," ","W","i","l","l","i","a","m">>>>,
    <<<<"2","2","1","9","2">>, <<"P","r","i","n","c","e"," ","W","i","l","l","i","a","m">>>>,
    <<<<"2","2","1","9","3">>, <<"P","r","i","n","c","e"," ","W","i","l","l","i","a","m">>>>,
    <<<<"2","2","1","9","4">>, <<"P","r","i","n","c","e"," ","W","i","l","l","i","a","m">>>>,
    <<<<"2","0","1","0","9">>, <<"P","r","i","n","c","e"," ","W","i","l","l","i","a","m">>>>,
    <<<<"2","0","1","1","0">>, <<"M","a","n","a","s","s","a","s">>>>,
    <<<<"2","0","1","1","1">>, <<"M","a","n","a","s","s","a","s">>>>,
    <<<<"2","0","1","1","2">>, <<"P","r","i","n","c","e"," ","W","i","l","l","i","a","m">>>>,
    <<<<"2","0","1","5","5">>, <<"P","r","i","n","c","e"," ","W","i","l","l","i","a","m">>>>,
    <<<<"2","0","1","6","9">>, <<"P","r","i","n","c","e"," ","W","i","l","l","i","a","m">>>>,
    <<<<"2","0","1","8","1">>, <<"P","r","i","n","c","e"," ","W","i","l","l","i","a","m">>>>,
    <<<<"2","3","1","7","3">>, <<"R","i","c","h","m","o","n","d">>>>,
    <<<<"2","3","2","1","9">>, <<"R","i","c","h","m","o","n","d">>>>,
    <<<<"2","3","2","2","0">>, <<"R","i","c","h","m","o","n","d">>>>,
    <<<<"2","3","2","2","1">>, <<"R","i","c","h","m","o","n","d">>>>,
    <<<<"2","3","2","2","2">>, <<"R","i","c","h","m","o","n","d">>>>,
    <<<<"2","3","2","2","3">>, <<"R","i","c","h","m","o","n","d">>>>,
    <<<<"2","3","2","2","4">>, <<"R","i","c","h","m","o","n","d">>>>,
    <<<<"2","3","2","2","5">>, <<"R","i","c","h","m","o","n","d">>>>,
    <<<<"2","3","2","2","6">>, <<"R","i","c","h","m","o","n","d">>>>,
    <<<<"2","3","2","2","7">>, <<"R","i","c","h","m","o","n","d">>>>,
    <<<<"2","3","2","2","8">>, <<"H","e","n","r","i","c","o">>>>,
    <<<<"2","3","2","2","9">>, <<"H","e","n","r","i","c","o">>>>,
    <<<<"2","3","2","3","0">>, <<"R","i","c","h","m","o","n","d">>>>,
    <<<<"2","3","2","3","1">>, <<"H","e","n","r","i","c","o">>>>,
    <<<<"2","3","2","3","3">>, <<"H","e","n","r","i","c","o">>>>,
    <<<<"2","3","2","3","4">>, <<"C","h","e","s","t","e","r","f","i","e","l","d">>>>,
    <<<<"2","3","2","3","5">>, <<"C","h","e","s","t","e","r","f","i","e","l","d">>>>,
    <<<<"2","3","2","3","6">>, <<"C","h","e","s","t","e","r","f","i","e","l","d">>>>,
    <<<<"2","3","2","3","7">>, <<"C","h","e","s","t","e","r","f","i","e","l","d">>>>,
    <<<<"2","3","2","3","8">>, <<"H","e","n","r","i","c","o">>>>,
    <<<<"2","3","2","9","4">>, <<"H","e","n","r","i","c","o">>>>
  }
ZIP_KEYS == {p[1] : p \in ZIP_TO_COUNTY_PAIRS}
ZIP_TO_COUNTY == [z \in ZIP_KEYS |-> (CHOOSE p \in ZIP_TO_COUNTY_PAIRS : p[1] = z)[2]]


(***************************************************************************)
(* Geofence validator (validation.ts)                                      *)
(***************************************************************************)
Str_VA == <<"V","A">>
Str_virginia == <<"v","i","r","g","i","n","i","a">>
Str_Unknown == <<"U","n","k","n","o","w","n">>

\* zipCode.replace(/\D/g, '').substring(0, 5)
cleanZipOf(zipCode) == substring0(StripNonDigits(zipCode), 5)

isVirginiaZipCode(zipCode) ==
  LET cleanZip == cleanZipOf(zipCode)
  IN  IF Len(cleanZip) # 5 THEN FALSE
      ELSE substring0(cleanZip, 2) \in VA_ZIP_PREFIXES

\* a lookup by the first three digits
getCountyFromZipByArea(zipCode) ==
  LET cleanZip == cleanZipOf(zipCode)
      area     == {z \in ZIP_KEYS : substring0(z, 3) = substring0(cleanZip, 3)}
  IN  IF area # {} THEN ZIP_TO_COUNTY[CHOOSE z \in area : TRUE] ELSE NULL

getCountyFromZip(zipCode) ==
  LET cleanZip == cleanZipOf(zipCode)
  IN  IF cleanZip \in ZIP_KEYS THEN ZIP_TO_COUNTY[cleanZip] ELSE NULL

RECURSIVE RegionScan(_, _)
RegionScan(county, k) ==
  IF k > Len(VA_REGIONS) THEN "none"
  ELSE IF \E i \in 1..Len(VA_COUNTIES[VA_REGIONS[k]]) :
            toLowerCase(VA_COUNTIES[VA_REGIONS[k]][i]) = toLowerCase(county)
       THEN VA_REGIONS[k]
  ELSE RegionScan(county, k + 1)

\* "none" stands for the null region
getRegionFromCounty(county) == RegionScan(county, 1)

\* a validator that reports the ZIP's county for a state it rejects
validateLeadLocationKeepsCounty(zipCode, state) ==
  LET cleanZip == cleanZipOf(zipCode)
      county   == getCountyFromZip(cleanZip)
  IN  IF Truthy(state) /\ toUpperCase(state) # Str_VA /\ toLowerCase(state) # Str_virginia
      THEN [isValid |-> FALSE, isVirginia |-> FALSE, county |-> county,
            region |-> IF Truthy(county) THEN getRegionFromCounty(county) ELSE "none",
            message |-> [text |-> "Lead is outside Virginia service area", arg |-> state]]
      ELSE IF Len(cleanZip) # 5
      THEN [isValid |-> FALSE, isVirginia |-> FALSE, county |-> NULL, region |-> "none",
            message |-> [text |-> "Invalid ZIP code format", arg |-> NULL]]
      ELSE IF ~isVirginiaZipCode(cleanZip)
      THEN [isValid |-> FALSE, isVirginia |-> FALSE, county |-> NULL, region |-> "none",
            message |-> [text |-> "ZIP code is outside Virginia", arg |-> NULL]]
      ELSE [isValid |-> TRUE, isVirginia |-> TRUE, county |-> county,
            region |-> IF Truthy(county) THEN getRegionFromCounty(county) ELSE "none",
            message |-> IF Truthy(county)
                        THEN [text |-> "Valid Virginia location", arg |-> county]
                        ELSE [text |-> "Valid Virginia ZIP code", arg |-> NULL]]

\* a validator without the prefix test of its third step
validateLeadLocationAnyPrefix(zipCode, state) ==
  LET cleanZip == cleanZipOf(zipCode)
      county   == getCountyFromZip(cleanZip)
  IN  IF Truthy(state) /\ toUpperCase(state) # Str_VA /\ toLowerCase(state) # Str_virginia
      THEN [isValid |-> FALSE, isVirginia |-> FALSE, county |-> NULL, region |-> "none",
            message |-> [text |-> "Lead is outside Virginia service area", arg |-> state]]
      ELSE IF Len(cleanZip) # 5
      THEN [isValid |-> FALSE, isVirginia |-> FALSE, county |-> NULL, region |-> "none",
            message |-> [text |-> "Invalid ZIP code format", arg |-> NULL]]
      ELSE [isValid |-> TRUE, isVirginia |-> TRUE, county |-> county,
            region |-> IF Truthy(county) THEN getRegionFromCounty(county) ELSE "none",
            message |-> IF Truthy(county)
                        THEN [text |-> "Valid Virginia location", arg |-> county]
                        ELSE [text |-> "Valid Virginia ZIP code", arg |-> NULL]]

\* a validator without the format test of its second step
validateLeadLocationAnyLength(zipCode, state) ==
  LET cleanZip == cleanZipOf(zipCode)
      county   == getCountyFromZip(cleanZip)
  IN  IF Truthy(state) /\ toUpperCase(state) # Str_VA /\ toLowerCase(state) # Str_virginia
      THEN [isValid |-> FALSE, isVirginia |-> FALSE, county |-> NULL, region |-> "none",
            message |-> [text |-> "Lead is outside Virginia service area", arg |-> state]]
      ELSE IF ~isVirginiaZipCode(cleanZip)
      THEN [isValid |-> FALSE, isVirginia |-> FALSE, county |-> NULL, region |-> "none",
            message |-> [text |-> "ZIP code is outside Virginia", arg |-> NULL]]
      ELSE [isValid |-> TRUE, isVirginia |-> TRUE, county |-> county,
            region |-> IF Truthy(county) THEN getRegionFromCounty(county) ELSE "none",
            message |-> IF Truthy(county)
                        THEN [text |-> "Valid Virginia location", arg |-> county]
                        ELSE [text |-> "Valid Virginia ZIP code", arg |-> NULL]]

validateLeadLocation(zipCode, state) ==
  LET cleanZip == cleanZipOf(zipCode)
      county   == getCountyFromZip(cleanZip)
  IN  IF Truthy(state) /\ toUpperCase(state) # Str_VA /\ toLowerCase(state) # Str_virginia
      THEN [isValid |-> FALSE, isVirginia |-> FALSE, county |-> NULL, region |-> "none",
            message |-> [text |-> "Lead is outside Virginia service area", arg |-> state]]
      ELSE IF Len(cleanZip) # 5
      THEN [isValid |-> FALSE, isVirginia |-> FALSE, county |-> NULL, region |-> "none",
            message |-> [text |-> "Invalid ZIP code format", arg |-> NULL]]
      ELSE IF ~isVirginiaZipCode(cleanZip)
      THEN [isValid |-> FALSE, isVirginia |-> FALSE, county |-> NULL, region |-> "none",
            message |-> [text |-> "ZIP code is outside Virginia", arg |-> NULL]]
      ELSE [isValid |-> TRUE, isVirginia |-> TRUE, county |-> county,
            region |-> IF Truthy(county) THEN getRegionFromCounty(county) ELSE "none",
            message |-> IF Truthy(county)
                        THEN [text |-> "Valid Virginia location", arg |-> county]
                        ELSE [text |-> "Valid Virginia ZIP code", arg |-> NULL]]

shouldAutoArchive(zipCode, state) == ~validateLeadLocation(zipCode, state).isVirginia

(***************************************************************************)
(* Service categorisation (categorization.ts)                              *)
(***************************************************************************)
EPIC == 1
MODERNIZE == 2
EXTERIOR == 3
SERVICE == 4
Tiers == {EPIC, MODERNIZE, EXTERIOR, SERVICE}

TIER_CONFIG ==
     EPIC      :> [minValue |-> 100000, maxValue |-> 500000, baseScore |-> 80]
  @@ MODERNIZE :> [minValue |-> 30000,  maxValue |-> 150000, baseScore |-> 60]
  @@ EXTERIOR  :> [minValue |-> 10000,  maxValue |-> 50000,  baseScore |-> 40]
  @@ SERVICE   :> [minValue |-> 2000,   maxValue |-> 30000,  baseScore |-> 20]

\* Object.keys(SERVICE_TO_TIER) in insertion order
SERVICE_NAMES ==
  <<
    <<"N","e","w"," ","C","o","n","s","t","r","u","c","t","i","o","n">>, <<"F","u","l","l"," ","R","e","n","o","v","a","t","i","o","n">>, <<"H","o","m","e"," ","A","d","d","i","t","i","o","n">>,
    <<"K","i","t","c","h","e","n"," ","R","e","m","o","d","e","l">>, <<"B","a","t","h","r","o","o","m"," ","R","e","m","o","d","e","l">>, <<"B","a","s","e","m","e","n","t"," ","R","e","m","o","d","e","l">>, <<"C","o","n","d","o"," ","R","e","n","o","v","a","t","i","o","n">>,
    <<"R","o","o","f","i","n","g">>, <<"D","e","c","k">>, <<"C","o","n","c","r","e","t","e">>, <<"S","i","d","i","n","g">>, <<"F","e","n","c","e">>, <<"S","h","e","-","S","h","e","d">>,
    <<"P","a","i","n","t","i","n","g">>, <<"D","r","y","w","a","l","l">>, <<"F","l","o","o","r","i","n","g">>, <<"W","i","n","d","o","w","s","/","D","o","o","r","s">> >>

SERVICE_TIERS == << 1, 1, 1, 2, 2, 2, 2, 3, 3, 3, 3, 3, 3, 4, 4, 4, 4 >>

IsServiceKey(serviceType) == \E i \in 1..Len(SERVICE_NAMES) : SERVICE_NAMES[i] = serviceType

SERVICE_TO_TIER(serviceType) ==
  SERVICE_TIERS[CHOOSE i \in 1..Len(SERVICE_NAMES) : SERVICE_NAMES[i] = serviceType]

\* SERVICE_TO_TIER is an object literal: besides its own 17 keys a lookup finds
\* the members it inherits from Object.prototype
OBJECT_PROTOTYPE_KEYS ==
  {<<"c","o","n","s","t","r","u","c","t","o","r">>,
   <<"t","o","S","t","r","i","n","g">>,
   <<"t","o","L","o","c","a","l","e","S","t","r","i","n","g">>,
   <<"v","a","l","u","e","O","f">>,
   <<"h","a","s","O","w","n","P","r","o","p","e","r","t","y">>,
   <<"i","s","P","r","o","t","o","t","y","p","e","O","f">>,
   <<"p","r","o","p","e","r","t","y","I","s","E","n","u","m","e","r","a","b","l","e">>,
   <<"_","_","p","r","o","t","o","_","_">>}

\* stands for an inherited member (a function or an object, no tier number)
INHERITED == -3

\* SERVICE_TO_TIER[serviceType] ?? ServiceTier.SERVICE: only null and undefined
\* give way to the default
getServiceTier(serviceType) ==
  IF IsServiceKey(serviceType) THEN SERVICE_TO_TIER(serviceType)
  ELSE IF serviceType \in OBJECT_PROTOTYPE_KEYS THEN INHERITED
  ELSE SERVICE

\* keywordMap of findClosestService, in insertion order
KEYWORD_MAP ==
  <<
    <<<<"k","i","t","c","h","e","n">>, <<"K","i","t","c","h","e","n"," ","R","e","m","o","d","e","l">>>>,
    <<<<"b","a","t","h">>, <<"B","a","t","h","r","o","o","m"," ","R","e","m","o","d","e","l">>>>,
    <<<<"b","a","t","h","r","o","o","m">>, <<"B","a","t","h","r","o","o","m"," ","R","e","m","o","d","e","l">>>>,
    <<<<"b","a","s","e","m","e","n","t">>, <<"B","a","s","e","m","e","n","t"," ","R","e","m","o","d","e","l">>>>,
    <<<<"c","o","n","d","o">>, <<"C","o","n","d","o"," ","R","e","n","o","v","a","t","i","o","n">>>>,
    <<<<"r","o","o","f">>, <<"R","o","o","f","i","n","g">>>>,
    <<<<"d","e","c","k">>, <<"D","e","c","k">>>>,
    <<<<"c","o","n","c","r","e","t","e">>, <<"C","o","n","c","r","e","t","e">>>>,
    <<<<"s","i","d","i","n","g">>, <<"S","i","d","i","n","g">>>>,
    <<<<"f","e","n","c","e">>, <<"F","e","n","c","e">>>>,
    <<<<"s","h","e","d">>, <<"S","h","e","-","S","h","e","d">>>>,
    <<<<"p","a","i","n","t">>, <<"P","a","i","n","t","i","n","g">>>>,
    <<<<"d","r","y","w","a","l","l">>, <<"D","r","y","w","a","l","l">>>>,
    <<<<"f","l","o","o","r">>, <<"F","l","o","o","r","i","n","g">>>>,
    <<<<"w","i","n","d","o","w">>, <<"W","i","n","d","o","w","s","/","D","o","o","r","s">>>>,
    <<<<"d","o","o","r">>, <<"W","i","n","d","o","w","s","/","D","o","o","r","s">>>>,
    <<<<"a","d","d","i","t","i","o","n">>, <<"H","o","m","e"," ","A","d","d","i","t","i","o","n">>>>,
    <<<<"r","e","n","o","v","a","t","i","o","n">>, <<"F","u","l","l"," ","R","e","n","o","v","a","t","i","o","n">>>>,
    <<<<"r","e","m","o","d","e","l">>, <<"F","u","l","l"," ","R","e","n","o","v","a","t","i","o","n">>>>,
    <<<<"n","e","w"," ","h","o","m","e">>, <<"N","e","w"," ","C","o","n","s","t","r","u","c","t","i","o","n">>>>,
    <<<<"b","u","i","l","d">>, <<"N","e","w"," ","C","o","n","s","t","r","u","c","t","i","o","n">>>> >>
  
  RECURSIVE FirstIndex(_, _, _)
\* index of the first k..n with P[k], or 0
FirstIndex(P, k, n) ==
  IF k > n THEN 0 ELSE IF P[k] THEN k ELSE FirstIndex(P, k + 1, n)

\* a search that tries the keywords before the partial matches
findClosestServiceKeywordFirst(input) ==
  LET normalized == trim(toLowerCase(input))
      n       == Len(SERVICE_NAMES)
      direct  == FirstIndex([i \in 1..n |-> toLowerCase(SERVICE_NAMES[i]) = normalized], 1, n)
      partial == FirstIndex([i \in 1..n |->
                    \/ includes(toLowerCase(SERVICE_NAMES[i]), normalized)
                    \/ includes(normalized, toLowerCase(SERVICE_NAMES[i]))], 1, n)
      m       == Len(KEYWORD_MAP)
      keyword == FirstIndex([i \in 1..m |-> includes(normalized, KEYWORD_MAP[i][1])], 1, m)
  IN  IF direct # 0 THEN SERVICE_NAMES[direct]
      ELSE IF keyword # 0 THEN KEYWORD_MAP[keyword][2]
      ELSE IF partial # 0 THEN SERVICE_NAMES[partial]
      ELSE NULL

findClosestService(input) ==
  LET normalized == trim(toLowerCase(input))
      n       == Len(SERVICE_NAMES)
      direct  == FirstIndex([i \in 1..n |-> toLowerCase(SERVICE_NAMES[i]) = normalized], 1, n)
      partial == FirstIndex([i \in 1..n |->
                    \/ includes(toLowerCase(SERVICE_NAMES[i]), normalized)
                    \/ includes(normalized, toLowerCase(SERVICE_NAMES[i]))], 1, n)
      m       == Len(KEYWORD_MAP)
      keyword == FirstIndex([i \in 1..m |-> includes(normalized, KEYWORD_MAP[i][1])], 1, m)
  IN  IF direct # 0 THEN SERVICE_NAMES[direct]
      ELSE IF partial # 0 THEN SERVICE_NAMES[partial]
      ELSE IF keyword # 0 THEN KEYWORD_MAP[keyword][2]
      ELSE NULL


(***************************************************************************)
(* Tagging (tagging.ts)                                                    *)
(***************************************************************************)
LUXURY_AREAS == <<
  <<"M","c","L","e","a","n">>,
  <<"G","r","e","a","t"," ","F","a","l","l","s">>,
  <<"V","i","e","n","n","a">>,
  <<"O","a","k","t","o","n">>,
  <<"C","l","i","f","t","o","n">>,
  <<"P","o","t","o","m","a","c"," ","F","a","l","l","s">>,
  <<"A","l","d","i","e">>,
  <<"L","e","e","s","b","u","r","g">>,
  <<"P","u","r","c","e","l","l","v","i","l","l","e">>,
  <<"O","l","d"," ","T","o","w","n"," ","A","l","e","x","a","n","d","r","i","a">>,
  <<"B","e","l","l","e"," ","H","a","v","e","n">>,
  <<"R","o","s","e","m","o","n","t">>,
  <<"C","h","a","r","l","o","t","t","e","s","v","i","l","l","e">>,
  <<"V","i","r","g","i","n","i","a"," ","B","e","a","c","h">>,
  <<"W","i","l","l","i","a","m","s","b","u","r","g">> >>

LUXURY_COUNTIES ==
  << <<"F","a","i","r","f","a","x">>, <<"L","o","u","d","o","u","n">>, <<"A","r","l","i","n","g","t","o","n">>, <<"A","l","e","x","a","n","d","r","i","a">>, <<"F","a","l","l","s"," ","C","h","u","r","c","h">> >>

WHALE_SERVICES ==
  { <<"N","e","w"," ","C","o","n","s","t","r","u","c","t","i","o","n">>, <<"F","u","l","l"," ","R","e","n","o","v","a","t","i","o","n">>, <<"H","o","m","e"," ","A","d","d","i","t","i","o","n">> }

QUICK_TURN_SERVICES ==
  { <<"P","a","i","n","t","i","n","g">>, <<"D","r","y","w","a","l","l">>, <<"F","l","o","o","r","i","n","g">>, <<"W","i","n","d","o","w","s","/","D","o","o","r","s">> }

LeadTypes == {"Investor", "Property Manager", "HOA Manager", "Homeowner", "Commercial"}

TagNames == {"Whale", "Quick-Turn", "Luxury", "Commercial", "Multi-Unit"}

\* tags.includes(tag)
HasTag(tags, tag) == \E i \in 1..Len(tags) : tags[i] = tag

\* a tagger that also counts an HOA manager as a multi-unit lead
assignLeadTagsOverlap(input) ==
  LET whaleSvc  == IF input.serviceType \in WHALE_SERVICES THEN <<"Whale">> ELSE <<>>
      whaleVal  == IF input.estimatedValue # NONE /\ input.estimatedValue # 0
                      /\ input.estimatedValue >= 100000 /\ ~HasTag(whaleSvc, "Whale")
                   THEN <<"Whale">> ELSE <<>>
      quick     == IF input.serviceType \in QUICK_TURN_SERVICES THEN <<"Quick-Turn">> ELSE <<>>
      isLuxuryArea   == \E i \in 1..Len(LUXURY_AREAS) :
                           includes(toLowerCase(input.location), toLowerCase(LUXURY_AREAS[i]))
      isLuxuryCounty == Truthy(input.county) /\
                        \E i \in 1..Len(LUXURY_COUNTIES) :
                           toLowerCase(LUXURY_COUNTIES[i]) = toLowerCase(input.county)
      luxury    == IF isLuxuryArea \/ isLuxuryCounty THEN <<"Luxury">> ELSE <<>>
      comm      == IF input.leadType \in {"Commercial", "HOA Manager"} THEN <<"Commercial">> ELSE <<>>
      multi     == IF input.leadType \in {"Property Manager", "Investor", "HOA Manager"}
                   THEN <<"Multi-Unit">> ELSE <<>>
  IN  whaleSvc \o whaleVal \o quick \o luxury \o comm \o multi

\* a tagger whose value rule does not look for a Whale tag already given
assignLeadTagsTwice(input) ==
  LET whaleSvc  == IF input.serviceType \in WHALE_SERVICES THEN <<"Whale">> ELSE <<>>
      whaleVal  == IF input.estimatedValue # NONE /\ input.estimatedValue # 0
                      /\ input.estimatedValue >= 100000
                   THEN <<"Whale">> ELSE <<>>
      quick     == IF input.serviceType \in QUICK_TURN_SERVICES THEN <<"Quick-Turn">> ELSE <<>>
      isLuxuryArea   == \E i \in 1..Len(LUXURY_AREAS) :
                           includes(toLowerCase(input.location), toLowerCase(LUXURY_AREAS[i]))
      isLuxuryCounty == Truthy(input.county) /\
                        \E i \in 1..Len(LUXURY_COUNTIES) :
                           toLowerCase(LUXURY_COUNTIES[i]) = toLowerCase(input.county)
      luxury    == IF isLuxuryArea \/ isLuxuryCounty THEN <<"Luxury">> ELSE <<>>
      comm      == IF input.leadType \in {"Commercial", "HOA Manager"} THEN <<"Commercial">> ELSE <<>>
      multi     == IF input.leadType \in {"Property Manager", "Investor"} THEN <<"Multi-Unit">> ELSE <<>>
  IN  whaleSvc \o whaleVal \o quick \o luxury \o comm \o multi

assignLeadTags(input) ==
  LET whaleSvc  == IF input.serviceType \in WHALE_SERVICES THEN <<"Whale">> ELSE <<>>
      whaleVal  == IF input.estimatedValue # NONE /\ input.estimatedValue # 0
                      /\ input.estimatedValue >= 100000 /\ ~HasTag(whaleSvc, "Whale")
                   THEN <<"Whale">> ELSE <<>>
      quick     == IF input.serviceType \in QUICK_TURN_SERVICES THEN <<"Quick-Turn">> ELSE <<>>
      isLuxuryArea   == \E i \in 1..Len(LUXURY_AREAS) :
                           includes(toLowerCase(input.location), toLowerCase(LUXURY_AREAS[i]))
      isLuxuryCounty == Truthy(input.county) /\
                        \E i \in 1..Len(LUXURY_COUNTIES) :
                           toLowerCase(LUXURY_COUNTIES[i]) = toLowerCase(input.county)
      luxury    == IF isLuxuryArea \/ isLuxuryCounty THEN <<"Luxury">> ELSE <<>>
      comm      == IF input.leadType \in {"Commercial", "HOA Manager"} THEN <<"Commercial">> ELSE <<>>
      multi     == IF input.leadType \in {"Property Manager", "Investor"} THEN <<"Multi-Unit">> ELSE <<>>
  IN  whaleSvc \o whaleVal \o quick \o luxury \o comm \o multi

\* a bonus counted per entry of the list
calculateTagBonusPerEntry(tags) ==
  IF tags = <<>> THEN 0
  ELSE LET points == [t \in TagNames |->
                        CASE t = "Whale" -> 15 [] t = "Luxury" -> 10 [] t = "Multi-Unit" -> 8
                          [] t = "Commercial" -> 5 [] OTHER -> 3]
           sum[k \in 0..Len(tags)] == IF k = 0 THEN 0 ELSE sum[k - 1] + points[tags[k]]
       IN  sum[Len(tags)]

calculateTagBonus(tags) ==
    (IF HasTag(tags, "Whale") THEN 15 ELSE 0)
  + (IF HasTag(tags, "Luxury") THEN 10 ELSE 0)
  + (IF HasTag(tags, "Multi-Unit") THEN 8 ELSE 0)
  + (IF HasTag(tags, "Commercial") THEN 5 ELSE 0)
  + (IF HasTag(tags, "Quick-Turn") THEN 3 ELSE 0)

(***************************************************************************)
(* Scoring (scoring.ts).  The weights are kept as hundredths.  The value   *)
(* score is a fraction over the tier's value range, so the weighted sum is *)
(* kept exactly as a numerator over that range (every range of TIER_CONFIG *)
(* is a multiple of 100, and a weight of 0.20 is a division by 5).         *)
(***************************************************************************)
SCORING_WEIGHTS == [tier |-> 40, scope |-> 25, value |-> 20, location |-> 10, engagement |-> 5]

Scopes == {"small", "medium", "large", "enterprise"}

SCOPE_SCORES == [small |-> 20, medium |-> 50, large |-> 75, enterprise |-> 100]

NOVA_COUNTIES ==
  << <<"F","a","i","r","f","a","x">>, <<"A","r","l","i","n","g","t","o","n">>, <<"A","l","e","x","a","n","d","r","i","a">>, <<"L","o","u","d","o","u","n">>, <<"P","r","i","n","c","e"," ","W","i","l","l","i","a","m">>, <<"F","a","l","l","s"," ","C","h","u","r","c","h">> >>

\* the number NaN: undefined * 0.25 and every sum, Math.round, Math.max and
\* Math.min that takes it
NaN == -2

\* Math.round of the non-negative fraction num / den
\* a rounding that drops the fraction
MathTrunc(num, den) == num \div den

MathRound(num, den) == (2 * num + den) \div (2 * den)

Min2(a, b) == IF a < b THEN a ELSE b
Max2(a, b) == IF a > b THEN a ELSE b

\* confidenceBonus = (confidenceScore / 100) * 5, in hundredths of a point
confidenceBonus100(confidenceScore) == confidenceScore * 5

\* an interpolation that falls from 100 to 30 between the ends of the range
valueScoreFalling(tierConfig, estimatedValue) ==
  LET range == tierConfig.maxValue - tierConfig.minValue
  IN  IF estimatedValue # NONE /\ estimatedValue > 0
      THEN IF estimatedValue >= tierConfig.maxValue THEN 100 * range
           ELSE IF estimatedValue <= tierConfig.minValue THEN 30 * range
           ELSE 100 * range - 70 * (estimatedValue - tierConfig.minValue)
      ELSE 50 * range

\* valueScore of calculateLeadScore, times the tier's range (maxValue - minValue)
valueScore(tierConfig, estimatedValue) ==
  LET range == tierConfig.maxValue - tierConfig.minValue
  IN  IF estimatedValue # NONE /\ estimatedValue > 0
      THEN IF estimatedValue >= tierConfig.maxValue THEN 100 * range
           ELSE IF estimatedValue <= tierConfig.minValue THEN 30 * range
           ELSE 30 * range + 70 * (estimatedValue - tierConfig.minValue)
      ELSE 50 * range

\* input: [serviceTier, projectScope ("none" when absent), estimatedValue (NONE when
\* absent), county (NULL when absent), hasEmail, hasPhone, tags, confidenceScore]
calculateLeadScore(input) ==
  LET tierConfig == TIER_CONFIG[input.serviceTier]
      tierScore  == tierConfig.baseScore
      \* SCOPE_SCORES[projectScope] is undefined for a scope the table does not list
      scopeKnown == input.projectScope = "none" \/ input.projectScope \in Scopes
      scopeScore == IF input.projectScope \in Scopes THEN SCOPE_SCORES[input.projectScope] ELSE 50
      range      == tierConfig.maxValue - tierConfig.minValue
      v          == input.estimatedValue
      \* SCORING_WEIGHTS.value * valueScore * range
      valueTerm  == (SCORING_WEIGHTS.value * valueScore(tierConfig, v)) \div 100
      isNoVA     == \E i \in 1..Len(NOVA_COUNTIES) :
                       toLowerCase(NOVA_COUNTIES[i]) = toLowerCase(input.county)
      locationScore == IF Truthy(input.county) THEN (IF isNoVA THEN 100 ELSE 70) ELSE 70
      engagementScore == (IF input.hasEmail THEN 50 ELSE 0) + (IF input.hasPhone THEN 50 ELSE 0)
      \* hundredths of a point, without the value term
      weighted100 == tierScore * SCORING_WEIGHTS.tier
                   + scopeScore * SCORING_WEIGHTS.scope
                   + locationScore * SCORING_WEIGHTS.location
                   + engagementScore * SCORING_WEIGHTS.engagement
      tagBonus   == IF Len(input.tags) > 0 THEN calculateTagBonus(input.tags) ELSE 0
      confBonus  == IF input.confidenceScore # NONE /\ input.confidenceScore > 0
                    THEN confidenceBonus100(input.confidenceScore) ELSE 0
      \* weightedScore * range
      total      == (range \div 100) * (weighted100 + 100 * tagBonus + confBonus) + valueTerm
  IN  IF ~scopeKnown THEN NaN
      ELSE Min2(100, Max2(0, MathRound(total, range)))


\* rank = score + (5 - tier) * 10, plus 50 for a stale lead
calculatePriorityRank(score, tier, isStale) ==
  score + (5 - tier) * 10 + (IF isStale THEN 50 ELSE 0)

(***************************************************************************)
(* Duplicate detection (duplicate-check.ts).  rows is the leads table as   *)
(* a query returns it (no ORDER BY: any order); failed names the lookups   *)
(* whose request fails, for which supabase-js yields data = null.          *)
(***************************************************************************)
normalizePhone(phone) == IF ~Truthy(phone) THEN NULL ELSE StripNonDigits(phone)

normalizeEmail(email) == IF ~Truthy(email) THEN NULL ELSE trim(toLowerCase(email))

normalizeName(name) == CollapseSpaces(trim(toLowerCase(name)))

NoDuplicate == [isDuplicate |-> FALSE, matchedLeadId |-> 0, matchType |-> "null"]

DuplicateOf(id, type) == [isDuplicate |-> TRUE, matchedLeadId |-> id, matchType |-> type]

\* hits: the indices of the rows a filter or predicate selects
\* .maybeSingle(): the row when exactly one matches, data = null when none
\* matches and also (with an error the caller drops) when several match
maybeSingle(rows, hits) ==
  IF Cardinality(hits) = 1 THEN rows[CHOOSE i \in hits : TRUE].id ELSE 0

\* Array.prototype.find: id of the first row selected, 0 when there is none
FindFirst(rows, hits) ==
  IF hits = {} THEN 0
  ELSE rows[CHOOSE i \in hits : \A j \in hits : i <= j].id

Wrap(pat) == <<"%">> \o pat \o <<"%">>

findDuplicateLead(rows, lead, failed) ==
  LET normalizedEmail    == normalizeEmail(lead.email)
      normalizedPhone    == normalizePhone(lead.phone)
      normalizedName     == normalizeName(lead.name)
      normalizedLocation == trim(toLowerCase(lead.location))
      EmailRow(r)  == ilike(r.email, normalizedEmail)
      emailMatch   == IF "email" \in failed THEN 0 ELSE maybeSingle(rows, {i \in 1..Len(rows) : EmailRow(rows[i])})
      PhoneRow(r)  == r.phone # NULL /\ normalizePhone(r.phone) = normalizedPhone
      phoneMatch   == IF "phone" \in failed THEN 0 ELSE FindFirst(rows, {i \in 1..Len(rows) : PhoneRow(rows[i])})
      NameRow(r)   == ilike(r.name, Wrap(normalizedName)) /\ ilike(r.location, Wrap(normalizedLocation))
      nameLocationMatch == IF "name" \in failed THEN 0 ELSE maybeSingle(rows, {i \in 1..Len(rows) : NameRow(rows[i])})
  IN  IF Truthy(normalizedEmail) /\ emailMatch # 0
      THEN DuplicateOf(emailMatch, "email")
      ELSE IF Truthy(normalizedPhone) /\ Len(normalizedPhone) >= 10 /\ phoneMatch # 0
      THEN DuplicateOf(phoneMatch, "phone")
      ELSE IF nameLocationMatch # 0
      THEN DuplicateOf(nameLocationMatch, "name_location")
      ELSE NoDuplicate

checkDuplicateLead(rows, lead, failed) == findDuplicateLead(rows, lead, failed).isDuplicate

\* one candidate of batchCheckDuplicates against the fetched rows
BatchOne(existingLeads, lead) ==
  LET normalizedEmail    == normalizeEmail(lead.email)
      normalizedPhone    == normalizePhone(lead.phone)
      normalizedName     == normalizeName(lead.name)
      normalizedLocation == trim(toLowerCase(lead.location))
      EmailHit(e) == Truthy(normalizedEmail) /\ normalizeEmail(e.email) = normalizedEmail
      PhoneHit(e) == Truthy(normalizedPhone) /\ normalizePhone(e.phone) = normalizedPhone
      NameHit(e)  == /\ includes(normalizeName(e.name), normalizedName)
                     /\ e.location # NULL
                     /\ includes(toLowerCase(e.location), normalizedLocation)
      AnyHit(e)   == EmailHit(e) \/ PhoneHit(e) \/ NameHit(e)
      match       == FindFirst(existingLeads, {i \in 1..Len(existingLeads) : AnyHit(existingLeads[i])})
      row         == existingLeads[CHOOSE i \in 1..Len(existingLeads) : existingLeads[i].id = match]
  IN  IF match = 0 THEN NoDuplicate
      ELSE DuplicateOf(match, IF EmailHit(row) THEN "email"
                              ELSE IF PhoneHit(row) THEN "phone"
                              ELSE "name_location")

\* results as a sequence: element i + 1 is the Map's entry for index i
batchCheckDuplicates(rows, leads, failed) ==
  IF failed
  THEN [i \in 1..Len(leads) |-> NoDuplicate]
  ELSE [i \in 1..Len(leads) |-> BatchOne(rows, leads[i])]


(***************************************************************************)
(* State                                                                   *)
(***************************************************************************)
VARIABLES
  leads,            \* the leads table, in insertion order
  nextId,           \* next primary key
  pipeline_stages,  \* the pipeline_stages history table
  now,              \* wall clock, in hours
  lastReq,          \* the last create request and what became of it
  call,             \* the last duplicate-check call and its result
  results,          \* per Lead Finder client: the processed leads it shows
  scoreCall         \* the last stand-alone calculateLeadScore call

vars == <<leads, nextId, pipeline_stages, now, lastReq, call, results, scoreCall>>

Clients == {"c1", "c2"}

\* x || null for text, x || null for numbers
OrNull(v) == IF Truthy(v) THEN v ELSE NULL
NumOrNull(n) == IF n # NONE /\ n # 0 THEN n ELSE NONE

NoReq == [flow |-> "none", zip_code |-> NULL, state |-> NULL, wantSave |-> FALSE,
          saved |-> FALSE, id |-> 0, body |-> <<>>]

Req(flow, body, wantSave, saved, id) ==
  [flow |-> flow, zip_code |-> body.zip_code, state |-> body.state, wantSave |-> wantSave,
   saved |-> saved, id |-> id, body |-> <<body>>]

NoCall == [kind |-> "none", rows |-> <<>>, cands |-> <<>>, failed |-> {}, out |-> <<>>]

NoScore == [given |-> FALSE, input |-> <<>>, out |-> 0]

\* an insert behind a unique index on the normalized email
InsertLeadUniqueEmail(table, row, id) ==
  IF \E i \in 1..Len(table) :
       Truthy(row.email) /\ trim(toLowerCase(table[i].email)) = trim(toLowerCase(row.email))
  THEN table
  ELSE Append(table, [created_at |-> now]
                       @@ [row EXCEPT !.id = id, !.lead_score = IF @ = NaN THEN NONE ELSE @])

\* supabase.from('leads').insert(row): the table assigns the primary key and
\* created_at (DEFAULT NOW()); the row travels as JSON, where NaN is written as null
InsertLead(table, row, id) ==
  Append(table, [created_at |-> now]
                  @@ [row EXCEPT !.id = id, !.lead_score = IF @ = NaN THEN NONE ELSE @])

\* supabase.from('pipeline_stages').insert({lead_id, stage})
InsertStage(history, id, stage) == Append(history, [lead_id |-> id, stage |-> stage])

Note_AutoArchivedForm == <<"Auto-archived: Location outside Virginia">>
Note_AIDiscovered == <<"AI-discovered lead. ">>
Note_AIDiscoveredArchived == <<"AI-discovered lead. ", "Auto-archived: Outside Virginia.">>
Note_AISummary == <<"AI Summary: ">>

\* bounds: rows in the table, rows ever inserted
MaxLeads == 2
MaxInserts == 2

HasRoom == Len(leads) < MaxLeads /\ nextId <= MaxInserts

(***************************************************************************)
(* POST /api/leads (app/api/leads/route.ts)                                *)
(***************************************************************************)
PostLeads(body) ==
  IF ~Truthy(body.name) \/ ~Truthy(body.location) \/ ~Truthy(body.zip_code)
     \/ ~Truthy(body.service_type)
  THEN \* 400: missing required fields
       /\ lastReq' = Req("POST /api/leads", body, TRUE, FALSE, 0)
       /\ UNCHANGED <<leads, nextId, pipeline_stages, now, call, results, scoreCall>>
  ELSE LET validation  == validateLeadLocation(body.zip_code, body.state)
           serviceTier == getServiceTier(body.service_type)
           leadScore   == calculateLeadScore([
                            serviceTier     |-> serviceTier,
                            projectScope    |-> body.project_scope,
                            estimatedValue  |-> body.estimated_value,
                            county          |-> validation.county,
                            hasEmail        |-> Truthy(body.email),
                            hasPhone        |-> Truthy(body.phone),
                            tags            |-> <<>>,
                            confidenceScore |-> NONE])
           leadData == [
             id              |-> 0,
             name            |-> body.name,
             email           |-> OrNull(body.email),
             phone           |-> OrNull(body.phone),
             location        |-> body.location,
             zip_code        |-> body.zip_code,
             county          |-> OrNull(validation.county),
             state           |-> IF validation.isVirginia THEN Str_VA
                                 ELSE IF Truthy(body.state) THEN body.state ELSE Str_Unknown,
             service_type    |-> body.service_type,
             service_tier    |-> serviceTier,
             project_scope   |-> body.project_scope,
             estimated_value |-> NumOrNull(body.estimated_value),
             lead_score      |-> leadScore,
             pipeline_stage  |-> "new",
             status          |-> IF validation.isVirginia THEN "active" ELSE "archived",
             notes           |-> OrNull(body.notes),
             discovered_at   |-> now,
             last_contacted_at |-> NONE,
             lead_type       |-> body.lead_type,
             tags            |-> body.tags,
             confidence_score |-> NumOrNull(body.confidence_score)]
       IN  /\ HasRoom
           /\ leads' = InsertLead(leads, leadData, nextId)
           /\ pipeline_stages' = InsertStage(pipeline_stages, nextId, "new")
           /\ nextId' = nextId + 1
           /\ lastReq' = Req("POST /api/leads", body, TRUE, TRUE, nextId)
           /\ UNCHANGED <<now, call, results, scoreCall>>

(***************************************************************************)
(* useAddLead().addLead (lib/supabase/hooks.ts)                            *)
(***************************************************************************)
AddLead(leadData) ==
  LET zipCode     == IF Truthy(leadData.zip_code) THEN leadData.zip_code ELSE <<>>
      serviceType == IF Truthy(leadData.service_type) THEN leadData.service_type ELSE <<>>
      county      == getCountyFromZip(zipCode)
      serviceTier == getServiceTier(serviceType)
      enrichedData == [
        id              |-> 0,
        name            |-> leadData.name,
        email           |-> leadData.email,
        phone           |-> leadData.phone,
        location        |-> leadData.location,
        zip_code        |-> zipCode,
        service_type    |-> serviceType,
        service_tier    |-> serviceTier,
        project_scope   |-> leadData.project_scope,
        estimated_value |-> leadData.estimated_value,
        lead_score      |-> calculateLeadScore([
                              serviceTier     |-> serviceTier,
                              projectScope    |-> leadData.project_scope,
                              estimatedValue  |-> leadData.estimated_value,
                              county          |-> county,
                              hasEmail        |-> Truthy(leadData.email),
                              hasPhone        |-> Truthy(leadData.phone),
                              tags            |-> <<>>,
                              confidenceScore |-> NONE]),
        county          |-> county,
        state           |-> IF isVirginiaZipCode(zipCode) THEN Str_VA ELSE leadData.state,
        status          |-> IF isVirginiaZipCode(zipCode) THEN "active" ELSE "archived",
        pipeline_stage  |-> IF leadData.pipeline_stage # "none"
                            THEN leadData.pipeline_stage ELSE "new",
        notes           |-> leadData.notes,
        discovered_at   |-> now,
        last_contacted_at |-> NONE,
        lead_type       |-> leadData.lead_type,
        tags            |-> leadData.tags,
        confidence_score |-> leadData.confidence_score]
  IN  IF leadData.name = NULL \/ leadData.location = NULL
      THEN \* the insert violates NOT NULL and the hook rethrows
           /\ lastReq' = Req("addLead", leadData, TRUE, FALSE, 0)
           /\ UNCHANGED <<leads, nextId, pipeline_stages, now, call, results, scoreCall>>
      ELSE /\ HasRoom
           /\ leads' = InsertLead(leads, enrichedData, nextId)
           /\ nextId' = nextId + 1
           /\ lastReq' = Req("addLead", leadData, TRUE, TRUE, nextId)
           /\ UNCHANGED <<pipeline_stages, now, call, results, scoreCall>>


(***************************************************************************)
(* NewLeadDialog.handleSubmit (components/leads/NewLeadDialog.tsx)         *)
(***************************************************************************)
NewLeadDialogSubmit(formData) ==
  LET isVA   == Len(formData.zip_code) >= 5 /\ isVirginiaZipCode(formData.zip_code)
      county == IF Len(formData.zip_code) >= 5 THEN getCountyFromZip(formData.zip_code) ELSE NULL
      serviceTier == getServiceTier(formData.service_type)
      leadScore == calculateLeadScore([
                     serviceTier     |-> serviceTier,
                     projectScope    |-> "none",
                     estimatedValue  |-> formData.estimated_value,
                     county          |-> county,
                     hasEmail        |-> Truthy(formData.email),
                     hasPhone        |-> Truthy(formData.phone),
                     tags            |-> <<>>,
                     confidenceScore |-> NONE])
      leadData == [
        id              |-> 0,
        name            |-> formData.name,
        email           |-> OrNull(formData.email),
        phone           |-> OrNull(formData.phone),
        location        |-> formData.location,
        zip_code        |-> formData.zip_code,
        county          |-> county,
        state           |-> IF isVA THEN Str_VA ELSE NULL,
        service_type    |-> formData.service_type,
        service_tier    |-> serviceTier,
        project_scope   |-> formData.project_scope,
        estimated_value |-> formData.estimated_value,
        lead_score      |-> leadScore,
        pipeline_stage  |-> "new",
        status          |-> IF isVA THEN "active" ELSE "archived",
        notes           |-> IF ~isVA THEN Note_AutoArchivedForm ELSE NULL,
        discovered_at   |-> now,
        last_contacted_at |-> NONE,
        lead_type       |-> "none",
        tags            |-> <<>>,
        confidence_score |-> NONE]
  IN  /\ HasRoom
      /\ leads' = InsertLead(leads, leadData, nextId)
      /\ nextId' = nextId + 1
      /\ lastReq' = Req("NewLeadDialog", formData, TRUE, TRUE, nextId)
      /\ UNCHANGED <<pipeline_stages, now, call, results, scoreCall>>

(***************************************************************************)
(* DiscoverLeadDialog.handleSave (components/leads/DiscoverLeadDialog.tsx) *)
(***************************************************************************)
DiscoverLeadDialogSave(extractedLead) ==
  LET isVA   == IF Truthy(extractedLead.zip_code) THEN isVirginiaZipCode(extractedLead.zip_code)
                ELSE FALSE
      county == IF Truthy(extractedLead.zip_code) THEN getCountyFromZip(extractedLead.zip_code)
                ELSE NULL
      matchedService == findClosestService(extractedLead.service_type)
      serviceType == IF Truthy(matchedService) THEN matchedService ELSE extractedLead.service_type
      serviceTier == IF Truthy(matchedService) THEN getServiceTier(matchedService) ELSE 4
      leadScore == calculateLeadScore([
                     serviceTier     |-> serviceTier,
                     projectScope    |-> "none",
                     estimatedValue  |-> extractedLead.estimated_value,
                     county          |-> county,
                     hasEmail        |-> Truthy(extractedLead.email),
                     hasPhone        |-> Truthy(extractedLead.phone),
                     tags            |-> <<>>,
                     confidenceScore |-> NONE])
      leadData == [
        id              |-> 0,
        name            |-> extractedLead.name,
        email           |-> OrNull(extractedLead.email),
        phone           |-> OrNull(extractedLead.phone),
        location        |-> extractedLead.location,
        zip_code        |-> extractedLead.zip_code,
        county          |-> county,
        state           |-> IF isVA THEN Str_VA ELSE NULL,
        service_type    |-> serviceType,
        service_tier    |-> serviceTier,
        project_scope   |-> extractedLead.project_scope,
        estimated_value |-> NumOrNull(extractedLead.estimated_value),
        lead_score      |-> leadScore,
        pipeline_stage  |-> "new",
        status          |-> IF isVA THEN "active" ELSE "archived",
        notes           |-> IF ~isVA THEN Note_AIDiscoveredArchived ELSE Note_AIDiscovered,
        discovered_at   |-> now,
        last_contacted_at |-> NONE,
        lead_type       |-> "none",
        tags            |-> <<>>,
        confidence_score |-> NONE]
  IN  /\ HasRoom
      /\ leads' = InsertLead(leads, leadData, nextId)
      /\ nextId' = nextId + 1
      /\ lastReq' = Req("DiscoverLeadDialog", extractedLead, TRUE, TRUE, nextId)
      /\ UNCHANGED <<pipeline_stages, now, call, results, scoreCall>>

(***************************************************************************)
(* POST /api/leads/discover (app/api/leads/discover/route.ts).             *)
(* enrichment is what enrichLeadData returned, or ok = FALSE when it threw *)
(***************************************************************************)
DiscoverPost(extractedData, enrichment, autoSave) ==
  LET closestService == findClosestService(extractedData.service_type)
      \* getServiceTier never returns a falsy tier, so this branch is dead
      serviceType == IF getServiceTier(extractedData.service_type) = 0
                     THEN (IF Truthy(closestService) THEN closestService ELSE Svc.FullRenovation)
                     ELSE extractedData.service_type
      validation == validateLeadLocation(extractedData.zip_code, NULL)
      enriched   == IF enrichment.ok THEN enrichment
                    ELSE [ok |-> FALSE, serviceTier |-> getServiceTier(serviceType),
                          projectScope |-> "medium", suggestedEstimate |-> NONE]
      estimate   == IF NumOrNull(enriched.suggestedEstimate) # NONE
                    THEN enriched.suggestedEstimate ELSE extractedData.estimated_value
      leadScore  == calculateLeadScore([
                      serviceTier     |-> enriched.serviceTier,
                      projectScope    |-> enriched.projectScope,
                      estimatedValue  |-> estimate,
                      county          |-> validation.county,
                      hasEmail        |-> Truthy(extractedData.email),
                      hasPhone        |-> Truthy(extractedData.phone),
                      tags            |-> <<>>,
                      confidenceScore |-> NONE])
      leadData == [
        id              |-> 0,
        name            |-> extractedData.name,
        email           |-> OrNull(extractedData.email),
        phone           |-> OrNull(extractedData.phone),
        location        |-> extractedData.location,
        zip_code        |-> extractedData.zip_code,
        county          |-> OrNull(validation.county),
        state           |-> IF validation.isVirginia THEN Str_VA ELSE Str_Unknown,
        service_type    |-> serviceType,
        service_tier    |-> enriched.serviceTier,
        project_scope   |-> enriched.projectScope,
        estimated_value |-> NumOrNull(estimate),
        lead_score      |-> leadScore,
        pipeline_stage  |-> "new",
        status          |-> "active",
        notes           |-> Note_AISummary,
        discovered_at   |-> now,
        last_contacted_at |-> NONE,
        lead_type       |-> "none",
        tags            |-> <<>>,
        confidence_score |-> NONE]
  IN  IF autoSave /\ validation.isVirginia
      THEN /\ HasRoom
           /\ leads' = InsertLead(leads, leadData, nextId)
           /\ pipeline_stages' = InsertStage(pipeline_stages, nextId, "new")
           /\ nextId' = nextId + 1
           /\ lastReq' = Req("POST /api/leads/discover", extractedData, autoSave, TRUE, nextId)
           /\ UNCHANGED <<now, call, results, scoreCall>>
      ELSE \* the lead is returned to the caller with saved: false
           /\ lastReq' = Req("POST /api/leads/discover", extractedData, autoSave, FALSE, 0)
           /\ UNCHANGED <<leads, nextId, pipeline_stages, now, call, results, scoreCall>>


(***************************************************************************)
(* POST /api/leads/find (app/api/leads/find/route.ts), from the parsed     *)
(* AI leads on.  rows and failed are what the store answers to the         *)
(* duplicate lookups of this request.                                      *)
(***************************************************************************)
Bijections(n) == {f \in [1..n -> 1..n] : \A i, j \in 1..n : f[i] = f[j] => i = j}

\* the table's rows in every order a query without ORDER BY may return them
RowOrders(table) == {[i \in 1..Len(table) |-> table[f[i]]] : f \in Bijections(Len(table))}

\* foundLeads.filter(...): valid Virginia ZIP and a real name
RECURSIVE validLeadsOf(_)
validLeadsOf(foundLeads) ==
  IF foundLeads = <<>> THEN <<>>
  ELSE LET lead == Head(foundLeads)
           keep == /\ Truthy(lead.zip_code) /\ isVirginiaZipCode(lead.zip_code)
                   /\ Truthy(lead.name) /\ lead.name # Str_Unknown
       IN  (IF keep THEN <<lead>> ELSE <<>>) \o validLeadsOf(Tail(foundLeads))

ProcessFoundLead(lead, category, rows, failed) ==
  LET isDuplicate == checkDuplicateLead(rows,
                       [name |-> lead.name, email |-> lead.email, phone |-> lead.phone,
                        location |-> lead.location], failed)
      closest        == findClosestService(category)
      matchedService == IF Truthy(closest) THEN closest ELSE Svc.FullRenovation
      serviceTier    == IF IsServiceKey(matchedService) THEN SERVICE_TO_TIER(matchedService)
                        ELSE MODERNIZE
      county         == getCountyFromZip(lead.zip_code)
      tags           == assignLeadTags([serviceType |-> matchedService, location |-> lead.location,
                                        county |-> county, leadType |-> lead.lead_type,
                                        estimatedValue |-> NONE])
      leadScore      == calculateLeadScore([
                          serviceTier     |-> serviceTier,
                          projectScope    |-> "none",
                          estimatedValue  |-> NONE,
                          county          |-> county,
                          hasEmail        |-> Truthy(lead.email),
                          hasPhone        |-> Truthy(lead.phone),
                          tags            |-> <<>>,
                          confidenceScore |-> NONE])
  IN  [lead EXCEPT !.county = county, !.service_type = matchedService,
                   !.service_tier = serviceTier, !.tags = tags, !.lead_score = leadScore,
                   !.isDuplicate = isDuplicate, !.state = Str_VA]

\* a parsed AI lead, widened with the fields the route adds
FoundLead(body) ==
  [name |-> body.name, email |-> body.email, phone |-> body.phone, location |-> body.location,
   zip_code |-> body.zip_code, lead_type |-> body.lead_type,
   confidence_score |-> body.confidence_score, county |-> NULL, service_type |-> NULL,
   service_tier |-> 0, tags |-> <<>>, lead_score |-> 0, isDuplicate |-> FALSE, state |-> NULL]

FinderPost(c, category, foundLeads, rows, failed) ==
  LET validLeads == validLeadsOf(foundLeads)
  IN  /\ rows \in RowOrders(leads)
      /\ results' = [results EXCEPT ![c] =
           [i \in 1..Len(validLeads) |->
              ProcessFoundLead(FoundLead(validLeads[i]), category, rows, failed)]]
      /\ UNCHANGED <<leads, nextId, pipeline_stages, now, lastReq, call, scoreCall>>

(***************************************************************************)
(* LeadFinder.saveLead (components/leads/LeadFinder.tsx)                   *)
(***************************************************************************)
SaveLead(c, index) ==
  /\ index \in 1..Len(results[c])
  /\ ~results[c][index].isDuplicate
  /\ HasRoom
  /\ LET lead == results[c][index]
         row  == [
           id              |-> 0,
           name            |-> lead.name,
           email           |-> lead.email,
           phone           |-> lead.phone,
           location        |-> lead.location,
           zip_code        |-> lead.zip_code,
           county          |-> lead.county,
           state           |-> Str_VA,
           service_type    |-> lead.service_type,
           service_tier    |-> lead.service_tier,
           project_scope   |-> "none",
           estimated_value |-> NONE,
           lead_score      |-> lead.lead_score,
           pipeline_stage  |-> "new",
           status          |-> "active",
           notes           |-> NULL,
           discovered_at   |-> now,
           last_contacted_at |-> NONE,
           lead_type       |-> lead.lead_type,
           tags            |-> lead.tags,
           confidence_score |-> lead.confidence_score]
     IN  /\ leads' = InsertLead(leads, row, nextId)
         /\ nextId' = nextId + 1
         /\ results' = [results EXCEPT ![c][index].isDuplicate = TRUE]
         /\ lastReq' = Req("LeadFinder.saveLead", lead, TRUE, TRUE, nextId)
         /\ UNCHANGED <<pipeline_stages, now, call, scoreCall>>

(***************************************************************************)
(* PUT /api/leads, DELETE /api/leads, useUpdateLeadStage().updateStage     *)
(***************************************************************************)
HasLead(id) == \E i \in 1..Len(leads) : leads[i].id = id

\* body fields: NULL / "none" stands for a field the request leaves undefined
PutLeads(body) ==
  /\ HasLead(body.id)
  /\ leads' = [i \in 1..Len(leads) |->
       IF leads[i].id # body.id THEN leads[i]
       ELSE [leads[i] EXCEPT
              !.service_type   = IF body.service_type # NULL THEN body.service_type ELSE @,
              !.pipeline_stage = IF body.pipeline_stage # "none" THEN body.pipeline_stage ELSE @,
              !.status         = IF body.status # "none" THEN body.status ELSE @,
              !.last_contacted_at =
                 IF body.last_contacted_at # NONE THEN body.last_contacted_at ELSE @]]
  /\ pipeline_stages' = IF body.pipeline_stage # "none"
                        THEN InsertStage(pipeline_stages, body.id, body.pipeline_stage)
                        ELSE pipeline_stages
  /\ UNCHANGED <<nextId, now, lastReq, call, results, scoreCall>>

DeleteLeads(id, permanent) ==
  /\ HasLead(id)
  /\ IF permanent
     THEN LET KeepLead(l)  == l.id # id
              KeepStage(s) == s.lead_id # id
          IN  /\ leads' = SelectSeq(leads, KeepLead)
              \* ON DELETE CASCADE
              /\ pipeline_stages' = SelectSeq(pipeline_stages, KeepStage)
     ELSE /\ leads' = [i \in 1..Len(leads) |->
                IF leads[i].id = id THEN [leads[i] EXCEPT !.status = "archived"] ELSE leads[i]]
          /\ UNCHANGED pipeline_stages
  /\ UNCHANGED <<nextId, now, lastReq, call, results, scoreCall>>

updateStage(leadId, newStage) ==
  /\ HasLead(leadId)
  /\ leads' = [i \in 1..Len(leads) |->
       IF leads[i].id # leadId THEN leads[i]
       ELSE [leads[i] EXCEPT
              !.pipeline_stage = newStage,
              !.last_contacted_at = IF newStage # "new" THEN now ELSE @]]
  /\ UNCHANGED <<nextId, pipeline_stages, now, lastReq, call, results, scoreCall>>

(***************************************************************************)
(* Direct calls of the library functions                                   *)
(***************************************************************************)
CallFindDuplicate(lead, rows, failed) ==
  /\ rows \in RowOrders(leads)
  /\ call' = [kind |-> "single", rows |-> rows, cands |-> <<lead>>, failed |-> failed,
              out |-> <<findDuplicateLead(rows, lead, failed)>>]
  /\ UNCHANGED <<leads, nextId, pipeline_stages, now, lastReq, results, scoreCall>>

CallBatchCheck(cands, rows, failed) ==
  /\ rows \in RowOrders(leads)
  /\ call' = [kind |-> "batch", rows |-> rows, cands |-> cands,
              failed |-> IF failed THEN {"fetch"} ELSE {},
              out |-> batchCheckDuplicates(rows, cands, failed)]
  /\ UNCHANGED <<leads, nextId, pipeline_stages, now, lastReq, results, scoreCall>>

CallCalculateLeadScore(input) ==
  /\ scoreCall' = [given |-> TRUE, input |-> <<input>>, out |-> calculateLeadScore(input)]
  /\ UNCHANGED <<leads, nextId, pipeline_stages, now, lastReq, call, results>>

Init ==
  /\ leads = <<>>
  /\ nextId = 1
  /\ pipeline_stages = <<>>
  /\ now = 0
  /\ lastReq = NoReq
  /\ call = NoCall
  /\ results = [c \in Clients |-> <<>>]
  /\ scoreCall = NoScore


(***************************************************************************)
(* Request values                                                          *)
(***************************************************************************)
Body(name, email, phone, location, zip, state, svc) ==
  [name |-> name, email |-> email, phone |-> phone, location |-> location, zip_code |-> zip,
   state |-> state, service_type |-> svc, project_scope |-> "none", estimated_value |-> NONE,
   notes |-> NULL, pipeline_stage |-> "none", lead_type |-> "Homeowner", tags |-> <<>>,
   confidence_score |-> NONE]

\* the texts the requests below carry
In == [
  Zip_Fairfax |-> <<"2","2","0","3","0">>,
  Zip_Maryland |-> <<"2","1","2","0","1">>,
  Zip_Short |-> <<"2","2","0","3">>,
  Str_MD |-> <<"M","D">>,
  Str_Ann |-> <<"A","n","n">>,
  Str_Vienna |-> <<"V","i","e","n","n","a">>,
  Str_kitchen |-> <<"k","i","t","c","h","e","n">>,
  Email_ann |-> <<"a","n","n","@","x">>,
  Str_Bob |-> <<"B", "o", "b">>,
  Str_Cy |-> <<"C", "y">>,
  Str_Zed |-> <<"Z", "e", "d">>,
  Str_Reston |-> <<"R", "e", "s", "t", "o", "n">>,
  Str_Burke |-> <<"B", "u", "r", "k", "e">>,
  Email_a |-> <<"a", "@", "x">>,
  Email_aPadded |-> <<" ", "A", "@", "X", " ">>,
  Email_aWild |-> <<"a", "_", "x">>,
  Email_aUpper |-> <<"A", "@", "x">>,
  Phone_Ten |-> <<"7", "0", "3", "5", "5", "5", "0", "1", "2", "3">>,
  Phone_TenFormatted |-> <<"(", "7", "0", "3", ")", " ", "5", "5", "5", "-", "0", "1", "2", "3">>,
  Phone_Seven |-> <<"5", "5", "5", "0", "1", "2", "3">>,
  Phone_SevenFormatted |-> <<"5", "5", "5", "-", "0", "1", "2", "3">> ]

\* in-area, out-of-area, in-area ZIP with a foreign state, no name
LifeBodies ==
  {   Body(In.Str_Ann, In.Email_ann, NULL, In.Str_Vienna, In.Zip_Fairfax, NULL, Svc.KitchenRemodel),
      Body(In.Str_Ann, NULL, NULL, In.Str_Vienna, In.Zip_Maryland, NULL, Svc.NewConstruction),
      Body(In.Str_Ann, NULL, NULL, In.Str_Vienna, In.Zip_Fairfax, In.Str_MD, Svc.Painting),
      Body(NULL, NULL, NULL, In.Str_Vienna, In.Zip_Fairfax, NULL, Svc.Deck) }

FormBodies == {b \in LifeBodies : b.name # NULL /\ b.state = NULL}

\* what the extraction service may hand over: a free-text service name too
ExtractedBodies ==
  {
    Body(In.Str_Ann, In.Email_ann, NULL, In.Str_Vienna, In.Zip_Fairfax, NULL, In.Str_kitchen),
    Body(In.Str_Ann, NULL, NULL, In.Str_Vienna, In.Zip_Maryland, NULL, Svc.Roofing) }

\* enrichLeadData threw / the AI answered with a tier of its own
Enrichments == {
  [ok |-> FALSE, serviceTier |-> 0, projectScope |-> "none", suggestedEstimate |-> NONE],
  [ok |-> TRUE, serviceTier |-> 1, projectScope |-> "large", suggestedEstimate |-> 60000] }

Stages == {"new", "contacted", "design_phase", "quoted", "closed"}

PutBody(id, svc, stage, status) ==
  [id |-> id, service_type |-> svc, pipeline_stage |-> stage, status |-> status,
   last_contacted_at |-> NONE]

\* PUT requests that change the service type
PutBodies == {PutBody(id, Svc.Painting, "none", "none") : id \in 1..MaxInserts}

(***************************************************************************)
(* Lead creation and update: every flow that stores a lead, and PUT        *)
(***************************************************************************)
Next ==
  \/ \E body \in LifeBodies : PostLeads(body)
  \/ \E body \in LifeBodies : AddLead(body)
  \/ \E body \in FormBodies : NewLeadDialogSubmit(body)
  \/ \E body \in ExtractedBodies : DiscoverLeadDialogSave(body)
  \/ \E body \in ExtractedBodies, e \in Enrichments, autoSave \in BOOLEAN :
        DiscoverPost(body, e, autoSave)
  \/ \E body \in ExtractedBodies, rows \in RowOrders(leads) :
        FinderPost("c1", In.Str_kitchen, <<body>>, rows, {})
  \/ SaveLead("c1", 1)
  \/ \E body \in PutBodies : PutLeads(body)

Spec == Init /\ [][Next]_vars


(***************************************************************************)
(* Properties of the stored leads                                          *)
(***************************************************************************)
LastLead(table) == table[Len(table)]

\* C3: every stored lead's service_tier is the tier the service-to-tier table
\* assigns to its service_type, after any sequence of creations and PUT updates;
\* a tier supplied by the AI enrichment or left behind by an update is never stored.
C3_TierMatchesService ==
  \A i \in 1..Len(leads) : leads[i].service_tier = getServiceTier(leads[i].service_type)

\* C5: every step that stores a new lead gives it status 'active' exactly when
\* validateLeadLocation(zip, state) of the submitted zip and state reports the
\* location serviceable, and status 'archived' otherwise.
C5_StatusIffServiceable ==
  [][Len(leads') > Len(leads) =>
       LastLead(leads').status =
         IF validateLeadLocation(lastReq'.zip_code, lastReq'.state).isVirginia
         THEN "active" ELSE "archived"]_vars

RequiredPresent(body) ==
  Truthy(body.name) /\ Truthy(body.location) /\ Truthy(body.zip_code) /\ Truthy(body.service_type)

ExplanatoryNotes == {Note_AutoArchivedForm, Note_AIDiscoveredArchived}

SubmittedFieldsKept(lead, body) ==
  /\ lead.name = body.name
  /\ lead.email = OrNull(body.email)
  /\ lead.phone = OrNull(body.phone)
  /\ lead.location = body.location
  /\ lead.zip_code = body.zip_code

\* C10: every create or save request that carries the required fields and a
\* location outside the serviceable region ends with the lead stored, archived,
\* carrying an explanatory note, with the submitted fields kept.
C10_OutOfAreaStored ==
  [][(lastReq' # lastReq \/ Len(leads') > Len(leads))
     /\ lastReq'.wantSave
     /\ RequiredPresent(lastReq'.body[1])
     /\ ~validateLeadLocation(lastReq'.zip_code, lastReq'.state).isVirginia
     => /\ lastReq'.saved
        /\ Len(leads') > Len(leads)
        /\ LastLead(leads').status = "archived"
        /\ LastLead(leads').notes \in ExplanatoryNotes
        /\ SubmittedFieldsKept(LastLead(leads'), lastReq'.body[1])]_vars


\* C23: every lead the Lead Finder returns carries the score calculateLeadScore
\* gives with the tags assignLeadTags derived for it and with its confidence
\* score: the tag bonus is part of the returned score.
C23_FinderScoreUsesTags ==
  \A c \in Clients : \A i \in 1..Len(results[c]) :
    LET lead == results[c][i]
    IN  lead.lead_score =
          calculateLeadScore([
            serviceTier     |-> lead.service_tier,
            projectScope    |-> "none",
            estimatedValue  |-> NONE,
            county          |-> lead.county,
            hasEmail        |-> Truthy(lead.email),
            hasPhone        |-> Truthy(lead.phone),
            tags            |-> lead.tags,
            confidenceScore |-> NumOrNull(lead.confidence_score)])

(***************************************************************************)
(* The duplicate detector against stores built by POST /api/leads          *)
(***************************************************************************)

\* leads the store can hold: one with an email, one with a ten-digit phone,
\* one with a seven-digit phone
DupBodies ==
  { Body(In.Str_Ann, In.Email_a, NULL, In.Str_Vienna, In.Zip_Fairfax, Str_VA, Svc.KitchenRemodel),
        Body(In.Str_Bob, NULL, In.Phone_Ten, In.Str_Reston, In.Zip_Fairfax, Str_VA, Svc.Painting),
        Body(In.Str_Cy, NULL, In.Phone_Seven, In.Str_Burke, In.Zip_Fairfax, Str_VA, Svc.Deck) }

Cand(name, email, phone, location) ==
  [name |-> name, email |-> email, phone |-> phone, location |-> location]

DupCands ==
  { Cand(In.Str_Zed, In.Email_aPadded, NULL, In.Str_Burke),
      Cand(In.Str_Zed, In.Email_a, In.Phone_TenFormatted, In.Str_Burke),
      Cand(In.Str_Zed, NULL, In.Phone_SevenFormatted, In.Str_Vienna),
      Cand(In.Str_Zed, In.Email_aWild, NULL, In.Str_Vienna),
      Cand(In.Str_Ann, NULL, NULL, In.Str_Vienna),
      Cand(In.Str_Ann, NULL, In.Phone_TenFormatted, In.Str_Vienna) }

DupCandLists ==
  {<<k>> : k \in DupCands}
      \cup {<<Cand(In.Str_Zed, In.Email_a, In.Phone_TenFormatted, In.Str_Burke),
              Cand(In.Str_Zed, NULL, In.Phone_SevenFormatted, In.Str_Vienna)>>}

Strategies == {"email", "phone", "name"}

NextDup ==
  \/ \E body \in DupBodies : PostLeads(body)
  \/ \E lead \in DupCands, rows \in RowOrders(leads), failed \in SUBSET Strategies :
        CallFindDuplicate(lead, rows, failed)
  \/ \E cands \in DupCandLists, rows \in RowOrders(leads), failed \in BOOLEAN :
        CallBatchCheck(cands, rows, failed)

SpecDup == Init /\ [][NextDup]_vars

\* the matches the documented strategies define on a snapshot
EmailMatches(rows, cand) ==
  {i \in 1..Len(rows) : /\ Truthy(normalizeEmail(cand.email))
                        /\ normalizeEmail(rows[i].email) = normalizeEmail(cand.email)}

PhoneMatches(rows, cand) ==
  {i \in 1..Len(rows) : /\ Truthy(cand.phone)
                        /\ Len(normalizePhone(cand.phone)) >= 10
                        /\ Truthy(rows[i].phone)
                        /\ normalizePhone(rows[i].phone) = normalizePhone(cand.phone)}

Ids(rows, idx) == {rows[i].id : i \in idx}

\* C1: for every candidate list and snapshot, batchCheckDuplicates returns at
\* each index exactly the result findDuplicateLead returns for that candidate
\* alone against the same snapshot.
C1_BatchEqualsSingle ==
  (call.kind = "batch" /\ call.failed = {}) =>
    \A i \in 1..Len(call.cands) :
      call.out[i] = findDuplicateLead(call.rows, call.cands[i], {})

\* C4: in the single and in the batch check, when some existing lead has the
\* candidate's normalized email the result is an 'email' match on such a lead,
\* and otherwise when some existing lead has the candidate's phone the result
\* is a 'phone' match on such a lead, whatever other leads match lower strategies.
C4_HighestPriorityStrategy ==
  (call.kind # "none" /\ call.failed = {}) =>
    \A i \in 1..Len(call.cands) :
      LET byEmail == EmailMatches(call.rows, call.cands[i])
          byPhone == PhoneMatches(call.rows, call.cands[i])
      IN  /\ byEmail # {} =>
               /\ call.out[i].matchType = "email"
               /\ call.out[i].matchedLeadId \in Ids(call.rows, byEmail)
          /\ (byEmail = {} /\ byPhone # {}) =>
               /\ call.out[i].matchType = "phone"
               /\ call.out[i].matchedLeadId \in Ids(call.rows, byPhone)

\* the lookups a check that found nothing has issued for a candidate
LookupsIssued(cand) ==
  {"name"}
    \cup (IF Truthy(normalizeEmail(cand.email)) THEN {"email"} ELSE {})
    \cup (IF Truthy(cand.phone) /\ Len(normalizePhone(cand.phone)) >= 10 THEN {"phone"} ELSE {})

\* C6: a check one of whose lookups failed never returns isDuplicate = FALSE
\* for the candidate: the failure reaches the caller.
C6_LookupFailureReported ==
  /\ call.kind = "single" =>
       (call.failed \cap LookupsIssued(call.cands[1]) # {} => call.out[1].isDuplicate)
  /\ call.kind = "batch" =>
       (call.failed # {} => \A i \in 1..Len(call.cands) : call.out[i].isDuplicate)

\* C7: findDuplicateLead reports an 'email' match whenever the candidate has an
\* email and at least one existing lead (or several) has the same normalized
\* email, and it reports an 'email' match only on a lead whose normalized email
\* is the candidate's.
C7_EmailMatchExact ==
  call.kind = "single" /\ call.failed = {} =>
    LET byEmail == EmailMatches(call.rows, call.cands[1])
    IN  /\ byEmail # {} => call.out[1].isDuplicate /\ call.out[1].matchType = "email"
        /\ call.out[1].matchType = "email" =>
             call.out[1].matchedLeadId \in Ids(call.rows, byEmail)

\* C8: a candidate whose phone has fewer than ten digits is never reported as a
\* 'phone' duplicate, by the single check or by the batch check.
C8_ShortPhoneNeverMatches ==
  call.kind # "none" =>
    \A i \in 1..Len(call.cands) :
      (Truthy(call.cands[i].phone) /\ Len(normalizePhone(call.cands[i].phone)) < 10)
        => call.out[i].matchType # "phone"


(***************************************************************************)
(* calculateLeadScore on its typed inputs, and the scores POST /api/leads  *)
(* stores                                                                  *)
(***************************************************************************)
TagOrder == <<"Whale", "Quick-Turn", "Luxury", "Commercial", "Multi-Unit">>

TagLists == {SelectSeq(TagOrder, LAMBDA tag : tag \in S) :
               S \in {{}, {"Quick-Turn"}, {"Whale"}, {"Whale", "Luxury"},
                      {"Commercial", "Multi-Unit"}, TagNames}}

\* absent, below every tier's range, inside some ranges, above every range
ScoreValues == {NONE, 1500, 40000, 600000}

ScoreInputs ==
  [serviceTier : Tiers, projectScope : {"none", "small", "enterprise"},
   estimatedValue : ScoreValues, county : {NULL, Cty.Fairfax},
   hasEmail : BOOLEAN, hasPhone : BOOLEAN, tags : TagLists,
   confidenceScore : {NONE, 100, 1000}]

\* request bodies of POST /api/leads: a listed scope, and one the table lacks
ScoreBodies ==
  { [Body(In.Str_Ann, In.Email_ann, NULL, In.Str_Vienna, In.Zip_Fairfax, NULL, Svc.KitchenRemodel)
         EXCEPT !.project_scope = "large", !.estimated_value = 60000],
      [Body(In.Str_Ann, In.Email_ann, NULL, In.Str_Vienna, In.Zip_Fairfax, NULL, Svc.Painting)
         EXCEPT !.project_scope = "huge"] }

InitScore ==
  /\ leads = <<>>
  /\ nextId = 1
  /\ pipeline_stages = <<>>
  /\ now = 0
  /\ lastReq = NoReq
  /\ call = NoCall
  /\ results = [c \in Clients |-> <<>>]
  /\ \E input \in ScoreInputs : scoreCall = [given |-> FALSE, input |-> <<input>>, out |-> 0]

NextScore ==
  \/ ~scoreCall.given /\ CallCalculateLeadScore(scoreCall.input[1])
  \/ \E body \in ScoreBodies : PostLeads(body)

SpecScore == InitScore /\ [][NextScore]_vars

\* C2: calculateLeadScore returns an integer between 0 and 100 for every score
\* input, and every stored lead carries a lead_score between 0 and 100.
C2_ScoreInRange ==
  /\ scoreCall.given => scoreCall.out \in 0..100
  /\ \A i \in 1..Len(leads) : leads[i].lead_score \in 0..100

\* C13: the bonus added for a supplied confidenceScore is min(5, c/100 * 5):
\* it never exceeds 5 points (500 hundredths), so the score of a call is the
\* score the same input gets with its confidence cut at 100.
C13_ConfidenceBonusCapped ==
  scoreCall.given /\ scoreCall.input[1].confidenceScore # NONE =>
    LET input == scoreCall.input[1]
    IN  /\ confidenceBonus100(input.confidenceScore) <= 500
        /\ scoreCall.out =
             calculateLeadScore([input EXCEPT !.confidenceScore = Min2(100, @)])

C25_TierMonotone ==
  scoreCall.given =>
    \A tier \in Tiers :
      tier > scoreCall.input[1].serviceTier =>
        scoreCall.out >= calculateLeadScore([scoreCall.input[1] EXCEPT !.serviceTier = tier])

(***************************************************************************)
(* Two Lead Finder clients: POST /api/leads/find, then saveLead            *)
(***************************************************************************)

\* what the search may hand over: two people with one mailbox, a third without
RaceFound ==
  { <<Body(In.Str_Ann, In.Email_a, NULL, In.Str_Vienna, In.Zip_Fairfax, NULL, In.Str_kitchen)>>,
      <<Body(In.Str_Bob, In.Email_aUpper, NULL, In.Str_Reston, In.Zip_Fairfax, NULL, In.Str_kitchen)>>,
      <<Body(In.Str_Cy, NULL, In.Phone_Ten, In.Str_Burke, In.Zip_Fairfax, NULL, In.Str_kitchen)>> }

NextRace ==
  \/ \E c \in Clients, foundLeads \in RaceFound, rows \in RowOrders(leads) :
        FinderPost(c, In.Str_kitchen, foundLeads, rows, {})
  \/ \E c \in Clients : SaveLead(c, 1)

SpecRace == Init /\ [][NextRace]_vars

NamesApart(a, b) ==
  /\ ~includes(normalizeName(a), normalizeName(b))
  /\ ~includes(normalizeName(b), normalizeName(a))

\* no row of the snapshot shares an email, a phone or a name with the candidate
NoMatchIn(rows, cand) ==
  /\ EmailMatches(rows, cand) = {}
  /\ PhoneMatches(rows, cand) = {}
  /\ \A i \in 1..Len(rows) : NamesApart(rows[i].name, cand.name)

\* C9: the check and the insert are separate steps.  A find request marks a
\* candidate isDuplicate = FALSE whenever the snapshot it reads holds no match;
\* a later save of a candidate so marked always inserts, whatever the store
\* holds by then, and leaves the marks the other client holds as they are.
C9_CheckThenInsertNotAtomic ==
  [][\A c \in Clients :
       /\ (results'[c] # results[c] /\ nextId' = nextId) =>
            \A i \in 1..Len(results'[c]) :
              NoMatchIn(leads, results'[c][i]) => ~results'[c][i].isDuplicate
       /\ (results'[c] # results[c] /\ nextId' # nextId) =>
            /\ Len(leads') = Len(leads) + 1
            /\ \E i \in 1..Len(results[c]) :
                 /\ ~results[c][i].isDuplicate
                 /\ LastLead(leads').email = results[c][i].email
            /\ \A d \in Clients \ {c} : results'[d] = results[d]]_vars

\* two stored leads with the same normalized email, each client having saved
\* its candidate, the later one on a mark taken before the earlier insert
C9_TwoLeadsSameEmail ==
  /\ lastReq.flow = "LeadFinder.saveLead"
  /\ \A c \in Clients : Len(results[c]) = 1 /\ results[c][1].isDuplicate
  /\ \E i, j \in 1..Len(leads) :
       /\ i < j
       /\ Truthy(normalizeEmail(leads[i].email))
       /\ normalizeEmail(leads[i].email) = normalizeEmail(leads[j].email)


(***************************************************************************)
(* The library functions on inputs drawn at the start: call holds the      *)
(* function's name and arguments, and its result once the call is made     *)
(***************************************************************************)
LibCall(fn, args) == [kind |-> fn, rows |-> <<>>, cands |-> <<args>>, failed |-> {}, out |-> <<>>]

Pending(fn) == call.kind = fn /\ call.out = <<>>

Done(fn) == call.kind = fn /\ call.out # <<>>

Return(result) ==
  /\ call' = [call EXCEPT !.out = <<result>>]
  /\ UNCHANGED <<leads, nextId, pipeline_stages, now, lastReq, results, scoreCall>>

\* scores a lead can carry: every tenth point of 0..100
RankScores == {10 * k : k \in 0..10}

\* a stale and a fresh lead, ranked for the same list
RankInputs ==
  {LibCall("calculatePriorityRank", [stale |-> s, fresh |-> f]) :
     s \in [score : RankScores, tier : Tiers], f \in [score : RankScores, tier : Tiers]}

CallCalculatePriorityRank ==
  /\ Pending("calculatePriorityRank")
  /\ LET a == call.cands[1]
     IN  Return([stale |-> calculatePriorityRank(a.stale.score, a.stale.tier, TRUE),
                 fresh |-> calculatePriorityRank(a.fresh.score, a.fresh.tier, FALSE)])

\* C11: the priority rank of a stale lead is strictly greater than the rank of
\* any lead that is not stale, whatever the scores and tiers of the two.
C11_StaleRanksFirst ==
  Done("calculatePriorityRank") => call.out[1].stale > call.out[1].fresh

\* two estimated values of one tier's range, all else equal
ValuesOf(tier) ==
  LET lo == TIER_CONFIG[tier].minValue
      hi == TIER_CONFIG[tier].maxValue
  IN  {lo, lo + 1, lo + (hi - lo) \div 4, (lo + hi) \div 2, hi - 1, hi}

ValueInputs ==
  LET pairs == UNION {{LibCall("calculateLeadScore", [input |-> input, v1 |-> v1, v2 |-> v2]) :
            input \in [serviceTier : {tier}, projectScope : {"none", "small"},
                       estimatedValue : {NONE}, county : {NULL, Cty.Fairfax},
                       hasEmail : {TRUE}, hasPhone : {FALSE},
                       tags : {<<>>, <<"Whale">>}, confidenceScore : {NONE}],
            v1 \in ValuesOf(tier), v2 \in ValuesOf(tier)} : tier \in Tiers}
  IN  {c \in pairs : c.cands[1].v1 <= c.cands[1].v2}

CallScorePair ==
  /\ Pending("calculateLeadScore")
  /\ LET a == call.cands[1]
         tierConfig == TIER_CONFIG[a.input.serviceTier]
     IN  Return([value1 |-> valueScore(tierConfig, a.v1),
                 value2 |-> valueScore(tierConfig, a.v2),
                 score1 |-> calculateLeadScore([a.input EXCEPT !.estimatedValue = a.v1]),
                 score2 |-> calculateLeadScore([a.input EXCEPT !.estimatedValue = a.v2])])

\* C14: for every tier and all other inputs equal, of two estimated values
\* v1 <= v2 within [minValue, maxValue] the first gets neither a greater value
\* score nor a greater lead score; the value score is 30 at minValue, 100 at
\* maxValue and linear in between (written here times the tier's range).
C14_ValueMonotone ==
  Done("calculateLeadScore") =>
    LET a   == call.cands[1]
        out == call.out[1]
        lo  == TIER_CONFIG[a.input.serviceTier].minValue
        hi  == TIER_CONFIG[a.input.serviceTier].maxValue
    IN  /\ out.value1 <= out.value2
        /\ out.score1 <= out.score2
        /\ out.value1 = 30 * (hi - lo) + 70 * (a.v1 - lo)
        /\ out.value2 = 30 * (hi - lo) + 70 * (a.v2 - lo)

\* two values strictly inside the range, the larger one scoring strictly higher
C14_ScoreRoseWithValue ==
  /\ Done("calculateLeadScore")
  /\ LET a  == call.cands[1]
         lo == TIER_CONFIG[a.input.serviceTier].minValue
         hi == TIER_CONFIG[a.input.serviceTier].maxValue
     IN  lo < a.v1 /\ a.v1 < a.v2 /\ a.v2 < hi
  /\ call.out[1].score1 < call.out[1].score2

\* ZIP texts: the table's keys, other five-digit ZIPs, and texts that are
\* formatted, too long or too short; with no state, Virginia, or another one
ZipInputs ==
  {LibCall("validateLeadLocation", [zipCode |-> z, state |-> s]) :
     z \in ZIP_KEYS \cup
           {<<"2","1","2","0","1">>,
            <<"2","0","5","0","0">>,
            <<"2","2","9","9","9">>,
            <<"2","3","0","0","0">>,
            <<"2","4","0","6","0">>,
            <<"1","0","0","0","1">>,
            <<"9","0","2","1","0">>,
            <<"0","0","0","0","0">>,
            <<"9","9","9","9","9">>,
            <<>>,
            <<"2","2","0","3">>,
            <<"1","2","3","4">>,
            <<"a","b","c">>,
            <<"V","A">>,
            <<"2","2","0","3","0","-","1","2","3","4">>,
            <<" ","2","2","0","3","0"," ">>,
            <<"2","-","2","-","0","-","3","-","0">>,
            <<"2"," ","1"," ","2"," ","0"," ","1">>,
            <<"2","1","2","0","1","1">>,
            <<"z","i","p"," ","2","2","0","3">>,
            <<"(","2","2",")">>},
     s \in {NULL, <<>>, Str_VA, <<"v","a">>, <<"V","i","r","g","i","n","i","a">>, In.Str_MD}}

CallValidateLeadLocation ==
  /\ Pending("validateLeadLocation")
  /\ LET a == call.cands[1]
     IN  Return([isVirginiaZipCode |-> isVirginiaZipCode(a.zipCode),
                 validation        |-> validateLeadLocation(a.zipCode, a.state)])

\* C15: for every well-formed five-digit ZIP, isVirginiaZipCode(zip) is true
\* exactly when validateLeadLocation(zip), called without a state, reports the
\* location serviceable (isVirginia).
C15_ZipChecksAgree ==
  Done("validateLeadLocation") =>
    LET a == call.cands[1]
    IN  a.state = NULL /\ Len(a.zipCode) = 5 /\ (\A i \in 1..5 : a.zipCode[i] \in DigitChars)
          => (call.out[1].isVirginiaZipCode <=> call.out[1].validation.isVirginia)

\* a well-formed five-digit ZIP that both checks accept
C15_BothAccept ==
  /\ Done("validateLeadLocation")
  /\ call.cands[1].state = NULL
  /\ Len(call.cands[1].zipCode) = 5 /\ StripNonDigits(call.cands[1].zipCode) = call.cands[1].zipCode
  /\ call.out[1].isVirginiaZipCode /\ call.out[1].validation.isVirginia

\* C16: for every ZIP text from which fewer than five digits can be extracted,
\* and no state other than Virginia given, validateLeadLocation returns
\* isValid false, not serviceable, county null, region null and the
\* format-error message; every ZIP text gets a result.
C16_ShortZipInvalid ==
  Done("validateLeadLocation") =>
    LET a == call.cands[1]
        v == call.out[1].validation
    IN  /\ DOMAIN v = {"isValid", "isVirginia", "county", "region", "message"}
        /\ (/\ Len(StripNonDigits(a.zipCode)) < 5
            /\ ~Truthy(a.state) \/ toLowerCase(a.state) \in {<<"v","a">>, Str_virginia})
             => /\ ~v.isValid /\ ~v.isVirginia
                /\ v.county = NULL /\ v.region = "none"
                /\ v.message = [text |-> "Invalid ZIP code format", arg |-> NULL]

\* a ZIP text with some, but fewer than five, digits was rejected for its format
C16_FourDigitsRejected ==
  /\ Done("validateLeadLocation")
  /\ Len(StripNonDigits(call.cands[1].zipCode)) \in 1..4
  /\ call.cands[1].state = Str_VA
  /\ call.out[1].validation.message.text = "Invalid ZIP code format"

\* C17: for every ZIP that is a key of ZIP_TO_COUNTY, validateLeadLocation(zip)
\* is serviceable and its county is the table's value; for every five-digit
\* ZIP whose two-digit prefix is none of 20, 22, 23 it is not serviceable and
\* its county is null.
C17_TableZipsServiceable ==
  Done("validateLeadLocation") /\ call.cands[1].state = NULL =>
    LET zip == call.cands[1].zipCode
        v   == call.out[1].validation
    IN  /\ zip \in ZIP_KEYS => v.isVirginia /\ v.county = ZIP_TO_COUNTY[zip]
        /\ (/\ Len(zip) = 5 /\ StripNonDigits(zip) = zip
            /\ <<zip[1], zip[2]>> \notin {<<"2","0">>, <<"2","2">>, <<"2","3">>})
             => ~v.isVirginia /\ v.county = NULL

\* a key of the table was validated and got its county and the county's region
C17_KeyGotItsCounty ==
  /\ Done("validateLeadLocation")
  /\ call.cands[1].zipCode \in ZIP_KEYS
  /\ call.out[1].validation.county = ZIP_TO_COUNTY[call.cands[1].zipCode]
  /\ call.out[1].validation.region # "none"

\* service texts: canonical names in several casings, parts of names, texts
\* holding names or keywords, and texts holding neither
ServiceInputs ==
  {LibCall("findClosestService", input) : input \in
     {<<"R","o","o","f","i","n","g">>,
      <<"R","O","O","F","I","N","G">>,
      <<" ","r","o","o","f","i","n","g"," ">>,
      <<"r","o","o","f">>,
      <<"r","o","o","f"," ","r","e","p","a","i","r">>,
      <<"n","e","w"," ","r","o","o","f","i","n","g"," ","j","o","b">>,
      <<"k","i","t","c","h","e","n">>,
      <<"k","i","t","c","h","e","n"," ","d","e","c","k">>,
      <<"b","a","t","h">>,
      <<"b","a","t","h","r","o","o","m">>,
      <<"m","y"," ","b","a","t","h","r","o","o","m"," ","r","e","m","o","d","e","l">>,
      <<"r","e","m","o","d","e","l">>,
      <<"d","e","c","k"," ","a","n","d"," ","f","e","n","c","e">>,
      <<"f","e","n","c","e"," ","a","n","d"," ","d","e","c","k">>,
      <<"p","l","u","m","b","i","n","g">>,
      <<>>,
      <<" "," ">>,
      <<"n","e","w"," ","h","o","m","e"," ","b","u","i","l","d">>,
      <<"d","o","o","r">>,
      <<"w","i","n","d","o","w","s","/","d","o","o","r","s">>,
      <<"e">>,
      <<"p","a","i","n","t"," ","t","h","e"," ","s","h","e","d">>,
      <<"s","h","e","-","s","h","e","d">>,
      <<"g","a","r","d","e","n"," ","s","h","e","d">>,
      <<"F","u","l","l"," ","R","e","n","o","v","a","t","i","o","n">>,
      <<"c","o","n","d","o">>,
      <<"h","v","a","c">>,
      <<"D","e","c","k">>,
      <<"b","a","s","e","m","e","n","t"," ","f","l","o","o","r">>,
      <<"x">>}}

CallFindClosestService ==
  /\ Pending("findClosestService")
  /\ Return(findClosestService(call.cands[1]))

\* C18: findClosestService applies three rules in strict order to the
\* lowercased, trimmed input: a canonical name equal to it, ignoring case;
\* otherwise the first canonical name in table order that contains it or is
\* contained in it; otherwise the service of the first keyword it contains.
\* The result is null exactly when no rule fires.
C18_RulesInOrder ==
  Done("findClosestService") =>
    LET normalized == trim(toLowerCase(call.cands[1]))
        exact    == {i \in 1..Len(SERVICE_NAMES) : toLowerCase(SERVICE_NAMES[i]) = normalized}
        partial  == {i \in 1..Len(SERVICE_NAMES) :
                       \/ includes(toLowerCase(SERVICE_NAMES[i]), normalized)
                       \/ includes(normalized, toLowerCase(SERVICE_NAMES[i]))}
        keywords == {i \in 1..Len(KEYWORD_MAP) : includes(normalized, KEYWORD_MAP[i][1])}
        out      == call.out[1]
    IN  /\ exact # {} => \E i \in exact : out = SERVICE_NAMES[i]
        /\ exact = {} /\ partial # {} =>
             out = SERVICE_NAMES[CHOOSE i \in partial : \A j \in partial : i <= j]
        /\ exact = {} /\ partial = {} /\ keywords # {} =>
             out = KEYWORD_MAP[CHOOSE i \in keywords : \A j \in keywords : i <= j][2]
        /\ out = NULL <=> exact = {} /\ partial = {} /\ keywords = {}

\* a text that holds a name further down the table and a keyword further up
\* got the name
C18_PartialBeatKeyword ==
  /\ Done("findClosestService")
  /\ call.cands[1] = <<"k","i","t","c","h","e","n"," ","d","e","c","k">>
  /\ call.out[1] = Svc.Deck

\* every canonical service and a text that is none; locations and counties
\* inside and outside the luxury lists, in either case; every lead type, none,
\* and a lead type in another case; values around the Whale threshold
TagInputs ==
  {LibCall("assignLeadTags", input) : input \in
     [serviceType : {SERVICE_NAMES[i] : i \in 1..Len(SERVICE_NAMES)} \cup {In.Str_kitchen},
      location : {In.Str_Burke, <<"1","2"," ","E","l","m"," ","S","t",","," ","m","c","l","e","a","n">>},
      county : {NULL, Cty.Henrico, <<"f","a","i","r","f","a","x">>},
      leadType : LeadTypes \cup {"none", "commercial"},
      estimatedValue : {NONE, 99999, 100000}]}

CallAssignLeadTags ==
  /\ Pending("assignLeadTags")
  /\ Return(assignLeadTags(call.cands[1]))

\* C19: assignLeadTags returns exactly the tags whose rule fires, each at most
\* once: Whale iff the service is one of the EPIC-tier services or the
\* estimated value is at least 100000; Quick-Turn iff the service is one of
\* the SERVICE-tier services; Luxury iff the location contains a luxury area
\* or the county is a luxury county, ignoring case; Commercial iff the lead
\* type is Commercial or HOA Manager; Multi-Unit iff it is Property Manager
\* or Investor.
C19_TagsExactlyByRule ==
  Done("assignLeadTags") =>
    LET input == call.cands[1]
        tags  == call.out[1]
        tierIs(tier) == IsServiceKey(input.serviceType) /\ SERVICE_TO_TIER(input.serviceType) = tier
        fires == [tag \in TagNames |->
                   CASE tag = "Whale" -> tierIs(EPIC) \/ (input.estimatedValue # NONE /\ input.estimatedValue >= 100000)
                     [] tag = "Quick-Turn" -> tierIs(SERVICE)
                     [] tag = "Luxury" ->
                          \/ \E i \in 1..Len(LUXURY_AREAS) :
                               includes(toLowerCase(input.location), toLowerCase(LUXURY_AREAS[i]))
                          \/ \E i \in 1..Len(LUXURY_COUNTIES) :
                               toLowerCase(LUXURY_COUNTIES[i]) = toLowerCase(input.county)
                     [] tag = "Commercial" -> input.leadType \in {"Commercial", "HOA Manager"}
                     [] OTHER -> input.leadType \in {"Property Manager", "Investor"}]
    IN  /\ \A i \in 1..Len(tags) : tags[i] \in TagNames
        /\ \A tag \in TagNames :
             Cardinality({i \in 1..Len(tags) : tags[i] = tag}) = (IF fires[tag] THEN 1 ELSE 0)

\* both Whale rules fire and the tag is there once
C19_WhaleOnceForTwoRules ==
  /\ Done("assignLeadTags")
  /\ call.cands[1].serviceType = Svc.NewConstruction
  /\ call.cands[1].estimatedValue = 100000
  /\ Cardinality({i \in 1..Len(call.out[1]) : call.out[1][i] = "Whale"}) = 1

\* tag lists of up to three entries, in any order and with repetition
BonusInputs ==
  {LibCall("calculateTagBonus", tags) :
     tags \in UNION {[1..n -> TagNames] : n \in 0..3} \cup TagLists}

CallCalculateTagBonus ==
  /\ Pending("calculateTagBonus")
  /\ Return(calculateTagBonus(call.cands[1]))

\* C20: calculateTagBonus is the sum, over the distinct tags present, of Whale
\* 15, Luxury 10, Multi-Unit 8, Commercial 5, Quick-Turn 3, with no cap (all
\* five give 41, Whale and Luxury give 25, no tag gives 0); the order and the
\* repetition of tags change nothing.
C20_BonusSumsDistinctTags ==
  Done("calculateTagBonus") =>
    LET tags    == call.cands[1]
        present == {tags[i] : i \in 1..Len(tags)}
        part(tag, points) == IF tag \in present THEN points ELSE 0
    IN  call.out[1] = part("Whale", 15) + part("Luxury", 10) + part("Multi-Unit", 8)
                        + part("Commercial", 5) + part("Quick-Turn", 3)

\* a list that names Whale twice and Luxury once got 25
C20_RepeatedTagCountedOnce ==
  /\ Done("calculateTagBonus")
  /\ call.cands[1] = <<"Whale", "Luxury", "Whale">>
  /\ call.out[1] = 25

\* the canonical names, and texts that are none: another case, a part of a
\* name, the empty text, names of members every object has
TierInputs ==
  {LibCall("getServiceTier", serviceType) : serviceType \in
     {SERVICE_NAMES[i] : i \in 1..Len(SERVICE_NAMES)} \cup
     {<<"r","o","o","f","i","n","g">>,
      <<"k","i","t","c","h","e","n">>,
      <<>>,
      <<"P","l","u","m","b","i","n","g">>,
      <<"c","o","n","s","t","r","u","c","t","o","r">>,
      <<"t","o","S","t","r","i","n","g">>,
      <<"_","_","p","r","o","t","o","_","_">>}}

CallGetServiceTier ==
  /\ Pending("getServiceTier")
  /\ Return(getServiceTier(call.cands[1]))

\* C21: getServiceTier is total: for each of the 17 canonical service names it
\* returns the tier the table assigns, for any other input it returns SERVICE
\* (4); the base scores of the tiers fall strictly with the tier number
\* (80 > 60 > 40 > 20).
C21_TierTotal ==
  /\ Done("getServiceTier") =>
       LET serviceType == call.cands[1]
       IN  /\ call.out[1] \in Tiers
           /\ \A i \in 1..Len(SERVICE_NAMES) :
                serviceType = SERVICE_NAMES[i] => call.out[1] = SERVICE_TIERS[i]
           /\ (\A i \in 1..Len(SERVICE_NAMES) : serviceType # SERVICE_NAMES[i])
                => call.out[1] = SERVICE
  /\ \A a, b \in Tiers : a < b => TIER_CONFIG[a].baseScore > TIER_CONFIG[b].baseScore

\* C27: every result of validateLeadLocation has isValid equal to isVirginia;
\* a result that is not serviceable has county null and region null; a region
\* is given only together with a county and is the one region whose county
\* list holds that county: no county is listed in two regions.
C27_ResultConsistent ==
  Done("validateLeadLocation") =>
    LET v     == call.out[1].validation
        names == [r \in DOMAIN VA_COUNTIES |->
                    {toLowerCase(VA_COUNTIES[r][i]) : i \in 1..Len(VA_COUNTIES[r])}]
    IN  /\ \A r1, r2 \in DOMAIN VA_COUNTIES : r1 # r2 => names[r1] \cap names[r2] = {}
        /\ v.isValid = v.isVirginia
        /\ ~v.isVirginia => v.county = NULL /\ v.region = "none"
        /\ v.region # "none" =>
             /\ v.county # NULL
             /\ v.region \in DOMAIN VA_COUNTIES
             /\ \A r \in DOMAIN VA_COUNTIES :
                  r = v.region <=> toLowerCase(v.county) \in names[r]

\* a ZIP of the table was placed in the Richmond region with its county
C27_RichmondRegion ==
  /\ Done("validateLeadLocation")
  /\ call.out[1].validation.region = "richmondMetro"
  /\ call.out[1].validation.county # NULL
  /\ call.out[1].validation.isValid

\* C28: no result of assignLeadTags holds both Commercial and Multi-Unit (their
\* rules test different lead types); so it holds at most 4 tags and its tag
\* bonus is at most 36.
C28_AtMostFourTags ==
  Done("assignLeadTags") =>
    /\ ~(HasTag(call.out[1], "Commercial") /\ HasTag(call.out[1], "Multi-Unit"))
    /\ Len(call.out[1]) <= 4
    /\ calculateTagBonus(call.out[1]) <= 36

\* four tags worth 36: a painting job of 100000 in a luxury area for an investor
C28_FourTagsWorth36 ==
  /\ Done("assignLeadTags")
  /\ Len(call.out[1]) = 4
  /\ calculateTagBonus(call.out[1]) = 36
  /\ call.cands[1].leadType = "Investor"

\* C30: findClosestService returns a canonical service only for an input that
\* is not empty once trimmed: for the empty or blank input it returns null.
C30_EmptyInputIsNull ==
  Done("findClosestService") /\ trim(call.cands[1]) = <<>> => call.out[1] = NULL

LibInputs ==
  TierInputs \cup RankInputs \cup ValueInputs \cup ZipInputs \cup ServiceInputs \cup TagInputs \cup BonusInputs

InitLib ==
  /\ leads = <<>>
  /\ nextId = 1
  /\ pipeline_stages = <<>>
  /\ now = 0
  /\ lastReq = NoReq
  /\ results = [c \in Clients |-> <<>>]
  /\ scoreCall = NoScore
  /\ call \in LibInputs

NextLib ==
  \/ CallCalculatePriorityRank
  \/ CallScorePair
  \/ CallValidateLeadLocation
  \/ CallFindClosestService
  \/ CallAssignLeadTags
  \/ CallCalculateTagBonus
  \/ CallGetServiceTier

SpecLib == InitLib /\ [][NextLib]_vars


(***************************************************************************)
(* useLeads (lib/supabase/hooks.ts): fetchLeads and checkIfStale, on a     *)
(* board of one lead while time passes.  Instants are hours.               *)
(***************************************************************************)
twentyFourHours == 24

\* the stale test without the stage condition of its last line
checkIfStaleAnyStage(lead) ==
  IF lead.last_contacted_at # NONE
  THEN now - lead.last_contacted_at > twentyFourHours
  ELSE now - (IF lead.discovered_at # NONE THEN lead.discovered_at ELSE lead.created_at)
         > twentyFourHours

checkIfStale(lead) ==
  LET lastContact == lead.last_contacted_at
      discovered  == IF lead.discovered_at # NONE THEN lead.discovered_at ELSE lead.created_at
  IN  IF lastContact # NONE
      THEN now - lastContact > twentyFourHours
      ELSE lead.pipeline_stage = "new" /\ now - discovered > twentyFourHours

\* .order('created_at', {ascending: false}): ties come in any order
NewestFirst(table) ==
  {rows \in RowOrders(table) :
     \A i, j \in 1..Len(rows) : i < j => rows[i].created_at >= rows[j].created_at}

fetchLeads(c) ==
  /\ \E data \in NewestFirst(leads) :
       results' = [results EXCEPT ![c] =
         [i \in 1..Len(data) |->
            LET lead   == data[i]
                county == IF Truthy(lead.county) THEN lead.county
                          ELSE getCountyFromZip(lead.zip_code)
                tier   == IF lead.service_tier # 0 THEN lead.service_tier
                          ELSE getServiceTier(lead.service_type)
            IN  [is_va_lead |-> isVirginiaZipCode(lead.zip_code),
                 is_stale   |-> checkIfStale(lead)]
                @@ [lead EXCEPT
                      !.county = county,
                      !.service_tier = tier,
                      !.lead_score =
                         IF @ # NONE /\ @ # 0 THEN @
                         ELSE calculateLeadScore([
                                serviceTier     |-> tier,
                                projectScope    |-> lead.project_scope,
                                estimatedValue  |-> lead.estimated_value,
                                county          |-> county,
                                hasEmail        |-> Truthy(lead.email),
                                hasPhone        |-> Truthy(lead.phone),
                                tags            |-> <<>>,
                                confidenceScore |-> NONE]),
                      !.discovered_at = IF @ # NONE THEN @ ELSE lead.created_at]]]
  /\ UNCHANGED <<leads, nextId, pipeline_stages, now, lastReq, call, scoreCall>>

\* bound: the last instant of the clock
MaxNow == 36

\* half a day passes
Tick ==
  /\ now < MaxNow
  /\ now' = now + twentyFourHours \div 2
  /\ UNCHANGED <<leads, nextId, pipeline_stages, lastReq, call, results, scoreCall>>

\* a lead entered as new, and one entered in a later stage
StaleBodies ==
  { Body(In.Str_Ann, NULL, NULL, In.Str_Vienna, In.Zip_Fairfax, NULL, Svc.Painting),
    [Body(In.Str_Ann, NULL, NULL, In.Str_Vienna, In.Zip_Fairfax, NULL, Svc.Painting)
       EXCEPT !.pipeline_stage = "contacted"] }

NextStale ==
  \/ \E body \in StaleBodies : leads = <<>> /\ AddLead(body)
  \/ \E newStage \in {"new", "contacted"} : updateStage(1, newStage)
  \/ Tick
  \/ fetchLeads("c1")

SpecStale == Init /\ [][NextStale]_vars

MaxHistory == 3

\* PUT requests that set the pipeline stage, with and without a contact time
StagePutBodies ==
  {[PutBody(id, NULL, stage, "none") EXCEPT !.last_contacted_at = at] :
     id \in 1..MaxInserts, stage \in {"new", "contacted"}, at \in {NONE, now}}

NextLife ==
  \/ /\ leads = <<>>
     /\ PostLeads(Body(In.Str_Ann, In.Email_ann, NULL, In.Str_Vienna, In.Zip_Fairfax, NULL,
                       Svc.KitchenRemodel))
  \/ \E body \in StagePutBodies : Len(pipeline_stages) < MaxHistory /\ PutLeads(body)
  \/ \E id \in 1..MaxInserts, newStage \in {"new", "contacted"} : updateStage(id, newStage)
  \/ \E id \in 1..MaxInserts, permanent \in BOOLEAN : DeleteLeads(id, permanent)
  \/ Tick

SpecLife == Init /\ [][NextLife]_vars

\* C22: no step removes a lead from the store; a step that archives a lead
\* changes its status to 'archived' and nothing else of it.
C22_NoLeadRemoved ==
  [][\A i \in 1..Len(leads) :
       \E j \in 1..Len(leads') :
         /\ leads'[j].id = leads[i].id
         /\ leads'[j].status = "archived" /\ leads[i].status # "archived"
              => leads'[j] = [leads[i] EXCEPT !.status = "archived"]]_vars


\* C26: every step that moves a lead to a stage other than 'new', by the
\* stage-update hook or by a PUT, records the time of the move as its last
\* contact, so the lead is not stale right after the move; a move to 'new'
\* leaves the last contact as it was.
C26_MoveRecordsContact ==
  [][\A i \in 1..Len(leads), j \in 1..Len(leads') :
       leads'[j].id = leads[i].id /\ leads'[j].pipeline_stage # leads[i].pipeline_stage =>
         IF leads'[j].pipeline_stage # "new"
         THEN leads'[j].last_contacted_at = now /\ ~checkIfStale(leads'[j])
         ELSE leads'[j].last_contacted_at = leads[i].last_contacted_at]_vars


\* C29: after any sequence of POST /api/leads, PUT with pipeline_stage and
\* stage updates of the hook, the latest history entry of every lead names the
\* lead's current stage, and a step adds a history entry only when it changes
\* the stage of that lead (or creates the lead).
C29_HistoryFollowsStage ==
  /\ [](\A i \in 1..Len(leads) :
         LET own == {k \in 1..Len(pipeline_stages) : pipeline_stages[k].lead_id = leads[i].id}
         IN  /\ own # {}
             /\ pipeline_stages[CHOOSE k \in own : \A m \in own : m <= k].stage
                  = leads[i].pipeline_stage)
  /\ [][Len(pipeline_stages') > Len(pipeline_stages) =>
          LET entry == pipeline_stages'[Len(pipeline_stages')]
          IN  \A i \in 1..Len(leads) :
                leads[i].id = entry.lead_id => leads[i].pipeline_stage # entry.stage]_vars

====
